---- MODULE Spec2Model ----
(***************************************************************************)
(* Model of the HomeBudget client: the transactional orchestrator of      *)
(* client.py (single mutations and batches over the Repository of          *)
(* repository.py, with the SyncUpdate emission of sync.py) and the sync    *)
(* payload codec (sync.py _encode_payload, tests/utils/sync_payload.py).   *)
(*                                                                         *)
(* A behaviour is one call of a client constructed on an existing          *)
(* database, from the call to its return or raise.                         *)
(*                                                                         *)
(* Amounts are positive integers (quantize is the identity on them); the   *)
(* date, account, category and subcategory of a record are one fixed       *)
(* value each, so duplicate detection compares kind, amount and notes.     *)
(***************************************************************************)
EXTENDS Integers, Sequences, FiniteSets, TLC

\* ----------------------------------------------------------------- bounds
MaxItems == 2        \* longest batch input list
MaxKey == 1          \* largest key an update or delete names
MaxAmount == 2       \* amounts the callers pass are 1..MaxAmount

\* ------------------------------------------------------------- base types
NoneS == "None"      \* Python None in a string position
NoneN == 0 - 1       \* Python None in a numeric position

Kinds == {"expense", "income", "transfer"}
Amounts == 1..MaxAmount
BASE_CURRENCY == "SGD"
Rates == {1, 2}      \* what the rate provider may answer

NoRec == [kind |-> "none", key |-> 0, amount |-> NoneN, notes |-> NoneS,
          currency |-> NoneS, currency_amount |-> NoneN]

EmptyDb == [recs |-> {}, trans |-> {}, sync |-> <<>>]

\* a database holding one record of each kind, as three adds with sync
\* disabled leave it
SeedRec(kind) == [kind |-> kind, key |-> 1, amount |-> 1, notes |-> "",
                  currency |-> BASE_CURRENCY, currency_amount |-> 1]

SeedDb == [recs |-> {SeedRec("expense"), SeedRec("income"), SeedRec("transfer")},
           trans |-> {[type |-> t, key |-> 1, amount |-> 1] :
                         t \in {"expense", "income", "transfer_out", "transfer_in"}},
           sync |-> <<>>]

\* exceptions, by class (and message where one class is raised twice)
NoErr == "ok"
NotFoundError == "NotFoundError"
DuplicateError == "DuplicateError"
ValueError == "ValueError"
TypeError == "TypeError: Unsupported record type"
PrimaryDeviceError == "RuntimeError: Primary device not found"
EntityError == "RuntimeError: Account or Category not found"
StorageError == "sqlite3.Error"
BeginError == "sqlite3.Error: begin"
CommitError == "sqlite3.Error: commit"
RollbackError == "sqlite3.Error: rollback"

\* ------------------------------------------------------------- repository
Max(S) == IF S = {} THEN 0 ELSE CHOOSE x \in S : \A y \in S : y <= x

\* cursor.lastrowid of an INSERT into the table of `kind`
NextKey(d, kind) == Max({r.key : r \in {x \in d.recs : x.kind = kind}}) + 1

\* TRANSACTION_TYPES rows a record of `kind` owns in AccountTrans
TransTypes(kind) ==
    IF kind = "transfer" THEN {"transfer_out", "transfer_in"} ELSE {kind}

\* Repository.get_expense / get_income / get_transfer
GetRecord(d, kind, key) ==
    LET hit == {r \in d.recs : r.kind = kind /\ r.key = key}
    IN IF hit = {} THEN [rec |-> NoRec, err |-> NotFoundError]
       ELSE [rec |-> CHOOSE r \in hit : TRUE, err |-> NoErr]

\* InsertRecord without the duplicate SELECT
InsertRecordUnchecked(d, dto, fault) ==
    LET notes == IF dto.notes = NoneS THEN "" ELSE dto.notes
        amount == dto.amount
        currency == IF dto.currency = NoneS THEN BASE_CURRENCY ELSE dto.currency
        currency_amount == IF dto.currency_amount = NoneN THEN amount
                           ELSE dto.currency_amount
        key == NextKey(d, dto.kind)
        rec == [kind |-> dto.kind, key |-> key, amount |-> amount,
                notes |-> notes, currency |-> currency,
                currency_amount |-> currency_amount]
        d1 == [d EXCEPT !.recs = @ \cup {rec}]
        rows == IF dto.kind = "transfer"
                THEN {[type |-> "transfer_out", key |-> key, amount |-> currency_amount],
                      [type |-> "transfer_in", key |-> key, amount |-> amount]}
                ELSE {[type |-> dto.kind, key |-> key, amount |-> amount]}
        d2 == [d1 EXCEPT !.trans = @ \cup rows]
    IN IF ~dto.valid THEN [db |-> d, rec |-> NoRec, err |-> NotFoundError]
       ELSE IF fault = "mid" THEN [db |-> d1, rec |-> NoRec, err |-> StorageError]
       ELSE [db |-> d2, rec |-> rec, err |-> NoErr]

\* Repository.insert_expense / insert_income / insert_transfer.
\* dto.valid = FALSE: the account or category named by the DTO is missing.
\* fault = "mid": the statement after the record INSERT raises.
InsertRecord(d, dto, fault) ==
    LET notes == IF dto.notes = NoneS THEN "" ELSE dto.notes
        amount == dto.amount
        currency == IF dto.currency = NoneS THEN BASE_CURRENCY ELSE dto.currency
        currency_amount == IF dto.currency_amount = NoneN THEN amount
                           ELSE dto.currency_amount
        dup == \E r \in d.recs : r.kind = dto.kind /\ r.amount = amount
                                 /\ r.notes = notes
        key == NextKey(d, dto.kind)
        rec == [kind |-> dto.kind, key |-> key, amount |-> amount,
                notes |-> notes, currency |-> currency,
                currency_amount |-> currency_amount]
        d1 == [d EXCEPT !.recs = @ \cup {rec}]
        rows == IF dto.kind = "transfer"
                THEN {[type |-> "transfer_out", key |-> key, amount |-> currency_amount],
                      [type |-> "transfer_in", key |-> key, amount |-> amount]}
                ELSE {[type |-> dto.kind, key |-> key, amount |-> amount]}
        d2 == [d1 EXCEPT !.trans = @ \cup rows]
    IN IF ~dto.valid THEN [db |-> d, rec |-> NoRec, err |-> NotFoundError]
       ELSE IF dup THEN [db |-> d, rec |-> NoRec, err |-> DuplicateError]
       ELSE IF fault = "mid" THEN [db |-> d1, rec |-> NoRec, err |-> StorageError]
       ELSE [db |-> d2, rec |-> rec, err |-> NoErr]

\* Repository.update_expense / update_income / update_transfer
\* p: the normalized parameters (amount, notes, currency, currency_amount)
UpdateRecord(d, kind, key, p, fault) ==
    LET noUpdates == p.amount = NoneN /\ p.notes = NoneS /\ p.currency = NoneS
                     /\ p.currency_amount = NoneN
        upd(r) == [r EXCEPT
                    !.amount = IF p.amount # NoneN THEN p.amount ELSE @,
                    !.notes = IF p.notes # NoneS THEN p.notes ELSE @,
                    !.currency = IF p.currency # NoneS THEN p.currency ELSE @,
                    !.currency_amount =
                        IF p.currency_amount # NoneN THEN p.currency_amount
                        ELSE IF p.amount # NoneN /\ kind # "transfer" THEN p.amount
                        ELSE @]
        d1 == [d EXCEPT !.recs =
                 {IF r.kind = kind /\ r.key = key THEN upd(r) ELSE r : r \in @}]
        d2 == IF p.amount = NoneN THEN d1
              ELSE [d1 EXCEPT !.trans =
                     {IF t.type \in TransTypes(kind) /\ t.key = key
                      THEN [t EXCEPT !.amount = p.amount] ELSE t : t \in @}]
        got == GetRecord(d2, kind, key)
    IN IF noUpdates THEN [db |-> d] @@ GetRecord(d, kind, key)
       ELSE IF fault = "mid" THEN [db |-> d1, rec |-> NoRec, err |-> StorageError]
       ELSE [db |-> d2] @@ got

\* DeleteRecord with the record's own DELETE left out
DeleteRecordKeepsRow(d, kind, key, fault) ==
    LET d1 == [d EXCEPT !.trans =
                 {t \in @ : ~(t.type \in TransTypes(kind) /\ t.key = key)}]
    IN IF fault = "mid" THEN [db |-> d1, err |-> StorageError]
       ELSE [db |-> d1, err |-> NoErr]

\* Repository.delete_expense / delete_income / delete_transfer
DeleteRecord(d, kind, key, fault) ==
    LET d1 == [d EXCEPT !.trans =
                 {t \in @ : ~(t.type \in TransTypes(kind) /\ t.key = key)}]
        d2 == [d1 EXCEPT !.recs = {r \in @ : ~(r.kind = kind /\ r.key = key)}]
    IN IF fault = "mid" THEN [db |-> d1, err |-> StorageError]
       ELSE [db |-> d2, err |-> NoErr]

\* ------------------------------------------------------------ sync emitter
\* SyncUpdateManager._resource_map: record class -> resource type
ResourceMap == [expense |-> "expense", income |-> "income"]

\* SyncUpdateManager._get_resource_type: dict.get, TypeError when absent
GetResourceType(kind) ==
    IF kind \in DOMAIN ResourceMap THEN ResourceMap[kind] ELSE NoneS

\* a fault of the sync emission: its `at`-th create_sync_record raises `err`
\* (EntityError from _get_entity_device, StorageError from the INSERT)
NoSyncFault == [at |-> 0, err |-> NoErr]
FaultNow(f) == IF f.at = 1 THEN f.err ELSE NoErr
FaultLater(f) == IF f.at > 0 THEN [f EXCEPT !.at = @ - 1] ELSE f

\* SyncUpdateManager.create_sync_record (with _build_payload): appends one
\* SyncUpdate row holding the operation, the key list and the record state.
\* device: DeviceInfo has a primary active row.  fault: what an entity
\* lookup or the INSERT raises (NoErr: nothing).
CreateSyncRecord(d, rec, op, device, fault) ==
    IF GetResourceType(rec.kind) = NoneS THEN [db |-> d, err |-> TypeError]
    ELSE IF ~device THEN [db |-> d, err |-> PrimaryDeviceError]
    ELSE IF fault # NoErr THEN [db |-> d, err |-> fault]
    ELSE [db |-> [d EXCEPT !.sync = Append(@, [op |-> op, kind |-> rec.kind,
                                               keys |-> {rec.key}, rec |-> rec])],
          err |-> NoErr]

\* SyncUpdateManager.create_updates_for_changes: one create_sync_record per
\* changed field, stopping at the first that raises
RECURSIVE CreateUpdatesForChanges(_, _, _, _, _, _)
CreateUpdatesForChanges(d, rec, op, n, device, f) ==
    IF n = 0 THEN [db |-> d, err |-> NoErr, f |-> f]
    ELSE LET r == CreateSyncRecord(d, rec, op, device, FaultNow(f))
         IN IF r.err # NoErr THEN [db |-> r.db, err |-> r.err, f |-> NoSyncFault]
            ELSE CreateUpdatesForChanges(r.db, rec, op, n - 1, device,
                                         FaultLater(f))

\* HomeBudgetClient._collect_changed_fields
CollectChangedFields(p) ==
    {x \in {"amount", "notes", "currency", "currency_amount"} :
        CASE x = "amount" -> p.amount # NoneN
          [] x = "notes" -> p.notes # NoneS
          [] x = "currency" -> p.currency # NoneS
          [] x = "currency_amount" -> p.currency_amount # NoneN}

\* Capitalised resource name of an operation name ("AddExpense", ...)
OpName(verb, kind) ==
    verb \o (CASE kind = "expense" -> "Expense" [] kind = "income" -> "Income"
               [] OTHER -> "Transfer")

\* -------------------------------------------------------------- normalizer
\* NormalizeForexInputs without the check of exchange_rate in its first rule
NormalizeRateUnchecked(amount, currency, currency_amount, exchange_rate, allow_empty, rate) ==
    LET both == amount # NoneN /\ currency_amount # NoneN
        err1 == both /\ amount # currency_amount
        err2 == currency_amount # NoneN /\ currency = NoneS
        er == IF exchange_rate = NoneN THEN rate ELSE exchange_rate
        amount2 == IF currency_amount # NoneN THEN currency_amount * er ELSE amount
        err3 == amount2 = NoneN /\ currency_amount = NoneN /\ ~allow_empty
        ca2 == IF amount2 # NoneN /\ currency_amount = NoneN THEN amount2
               ELSE currency_amount
        err5 == amount2 = NoneN /\ ca2 = NoneN
                /\ (currency # NoneS \/ exchange_rate # NoneN)
    IN IF err1 \/ err2 \/ err3 \/ err5
       THEN [err |-> ValueError, amount |-> NoneN, currency |-> NoneS,
             currency_amount |-> NoneN]
       ELSE [err |-> NoErr, amount |-> amount2, currency |-> currency,
             currency_amount |-> ca2]

\* HomeBudgetClient._normalize_forex_inputs.  rate: what _get_forex_rate
\* answers when it is asked.
NormalizeForexInputs(amount, currency, currency_amount, exchange_rate, allow_empty, rate) ==
    LET both == amount # NoneN /\ currency_amount # NoneN
        err1 == both /\ (exchange_rate # NoneN \/ amount # currency_amount)
        err2 == currency_amount # NoneN /\ currency = NoneS
        er == IF exchange_rate = NoneN THEN rate ELSE exchange_rate
        amount2 == IF currency_amount # NoneN THEN currency_amount * er ELSE amount
        err3 == amount2 = NoneN /\ currency_amount = NoneN /\ ~allow_empty
        ca2 == IF amount2 # NoneN /\ currency_amount = NoneN THEN amount2
               ELSE currency_amount
        err5 == amount2 = NoneN /\ ca2 = NoneN
                /\ (currency # NoneS \/ exchange_rate # NoneN)
    IN IF err1 \/ err2 \/ err3 \/ err5
       THEN [err |-> ValueError, amount |-> NoneN, currency |-> NoneS,
             currency_amount |-> NoneN]
       ELSE [err |-> NoErr, amount |-> amount2, currency |-> currency,
             currency_amount |-> ca2]

\* HomeBudgetClient._resolve_batch_forex_add
ResolveBatchForexAdd(amount, currency, currency_amount, exchange_rate) ==
    LET err1 == amount # NoneN /\ currency_amount # NoneN
        err2 == currency_amount # NoneN
                /\ (exchange_rate = NoneN \/ currency = NoneS)
        amount2 == IF currency_amount # NoneN /\ exchange_rate # NoneN
                   THEN currency_amount * exchange_rate ELSE amount
        err3 == amount2 = NoneN /\ currency_amount = NoneN
        ca2 == IF amount2 # NoneN /\ currency_amount = NoneN THEN amount2
               ELSE currency_amount
    IN IF err1 \/ err2 \/ err3
       THEN [err |-> ValueError, amount |-> NoneN, currency |-> NoneS,
             currency_amount |-> NoneN]
       ELSE [err |-> NoErr, amount |-> amount2, currency |-> currency,
             currency_amount |-> ca2]

\* cli/common.py resolve_forex_inputs.  provider: the rate the
\* forex_rate_provider answers, NoneN when the command has none.
UsageError == "click.UsageError"

ResolveForexInputs(amount, currency, currency_amount, exchange_rate, default_currency_amount, allow_empty, provider) ==
    LET err1 == amount # NoneN /\ currency_amount # NoneN
        err2 == currency_amount # NoneN /\ currency = NoneS
        err3 == currency_amount # NoneN /\ exchange_rate = NoneN
                /\ provider = NoneN
        er == IF exchange_rate = NoneN THEN provider ELSE exchange_rate
        amount2 == IF currency_amount # NoneN THEN currency_amount * er ELSE amount
        err4 == amount2 = NoneN /\ currency_amount = NoneN /\ ~allow_empty
        ca2 == IF amount2 # NoneN /\ currency_amount = NoneN
                  /\ default_currency_amount
               THEN amount2 ELSE currency_amount
    IN IF err1 \/ err2 \/ err3 \/ err4
       THEN [err |-> UsageError, amount |-> NoneN, currency |-> NoneS,
             currency_amount |-> NoneN]
       ELSE [err |-> NoErr, amount |-> amount2, currency |-> currency,
             currency_amount |-> ca2]

\* BaseTransactionDTO._validate_currency on the fields of a DTO whose
\* currency, when given, is not blank: the DTO as constructed, or ValueError
ValidateCurrency(amount, currency, currency_amount) ==
    IF currency_amount = NoneN /\ currency = NoneS
    THEN [err |-> NoErr, amount |-> amount, currency |-> currency,
          currency_amount |-> currency_amount]
    ELSE IF currency # NoneS /\ currency_amount = NoneN
    THEN [err |-> ValueError, amount |-> NoneN, currency |-> NoneS,
          currency_amount |-> NoneN]
    ELSE [err |-> NoErr, amount |-> amount, currency |-> currency,
          currency_amount |-> currency_amount]

\* ------------------------------------------------------------------ inputs
Faults == {"none", "mid"}      \* where a storage statement raises
MaxFaultAt == 2                \* the create_sync_record that raises: 1..MaxFaultAt
SyncFaults ==
    {NoSyncFault} \cup [at : 1..MaxFaultAt, err : {EntityError, StorageError}]

NoParams == [amount |-> NoneN, notes |-> NoneS, currency |-> NoneS,
             currency_amount |-> NoneN, exchange_rate |-> NoneN]

\* what a caller passes to update_expense / update_income / update_transfer
UpdateParams ==
    {p \in [amount : {NoneN, MaxAmount}, notes : {NoneS, "n"},
            currency : {NoneS, "USD"}, currency_amount : {NoneN, MaxAmount},
            exchange_rate : {NoneN, 2}] :
        p.exchange_rate # NoneN => p.currency_amount # NoneN}

\* a validated ExpenseDTO / IncomeDTO / TransferDTO
MakeDto(kind, amount, currency, currency_amount, valid) ==
    [kind |-> kind, amount |-> amount, notes |-> NoneS, currency |-> currency,
     currency_amount |-> currency_amount, valid |-> valid]

NoDto == MakeDto("none", NoneN, NoneS, NoneN, FALSE)

\* BatchOperation(resource, operation, parameters)
MakeOp(resource, operation, key, p, valid) ==
    [resource |-> resource, operation |-> operation, key |-> key, p |-> p,
     valid |-> valid]

\* the operations a mixed batch is built from.  Expenses: an add (valid,
\* naming a missing category, or without an amount), an update of the amount,
\* the notes, both or nothing, a delete.  Transfers: a valid add.
BatchUpdateParams ==
    {p \in UpdateParams : p.currency = NoneS /\ p.currency_amount = NoneN}

\* no operation of BatchOps carries a currency_amount, so its update never
\* asks the rate provider
BatchRate == CHOOSE r \in Rates : TRUE

BatchOps ==
    {MakeOp("expense", "add", 0, [NoParams EXCEPT !.amount = MaxAmount], v) :
        v \in BOOLEAN}
    \cup {MakeOp("expense", "add", 0, NoParams, TRUE)}
    \cup {MakeOp("expense", "update", key, p, TRUE) :
        key \in 1..MaxKey, p \in BatchUpdateParams}
    \cup {MakeOp("expense", "delete", key, NoParams, TRUE) : key \in 1..MaxKey}
    \cup {MakeOp("transfer", "add", 0, [NoParams EXCEPT !.amount = MaxAmount], TRUE)}

\* the items of add_expenses_batch / add_incomes_batch / add_transfers_batch
DtoOps(kind) ==
    {MakeOp(kind, "add", 0, [NoParams EXCEPT !.amount = a], v) :
        a \in Amounts, v \in BOOLEAN}

\* ------------------------------------------------------ batch item handler
\* HomeBudgetClient._apply_batch_operation: the record, the sync operation
\* and the changed fields of one operation, or the exception it raises.
ApplyBatchOperation(d, op, fault, rate) ==
    LET fail(dd, e) == [db |-> dd, rec |-> NoRec, err |-> e, verb |-> "none",
                        changed |-> {}]
    IN CASE op.operation = "add" ->
            LET n == ResolveBatchForexAdd(op.p.amount, op.p.currency,
                                          op.p.currency_amount, op.p.exchange_rate)
                r == InsertRecord(d, MakeDto(op.resource, n.amount, n.currency,
                                             n.currency_amount, op.valid), fault)
            IN IF n.err # NoErr THEN fail(d, n.err)
               ELSE IF r.err # NoErr THEN fail(r.db, r.err)
               ELSE [db |-> r.db, rec |-> r.rec, err |-> NoErr, verb |-> "Add",
                     changed |-> {}]
         [] op.operation = "update" ->
            LET n == NormalizeForexInputs(op.p.amount, op.p.currency,
                                          op.p.currency_amount, op.p.exchange_rate,
                                          op.p.notes # NoneS, rate)
                np == [amount |-> n.amount, notes |-> op.p.notes,
                       currency |-> op.p.currency,
                       currency_amount |-> n.currency_amount]
                r == UpdateRecord(d, op.resource, op.key, np, fault)
            IN IF op.p.amount = NoneN /\ op.p.notes = NoneS
                  /\ op.p.currency = NoneS /\ op.p.currency_amount = NoneN
               THEN fail(d, ValueError)
               ELSE IF n.err # NoErr THEN fail(d, n.err)
               ELSE IF r.err # NoErr THEN fail(r.db, r.err)
               ELSE [db |-> r.db, rec |-> r.rec, err |-> NoErr, verb |-> "Update",
                     changed |-> CollectChangedFields(np)]
         [] OTHER ->
            LET g == GetRecord(d, op.resource, op.key)
                r == DeleteRecord(d, op.resource, op.key, fault)
            IN IF g.err # NoErr THEN fail(d, g.err)
               ELSE IF r.err # NoErr THEN fail(r.db, r.err)
               ELSE [db |-> r.db, rec |-> g.rec, err |-> NoErr, verb |-> "Delete",
                     changed |-> {}]

\* the consolidated emission after the loop of HomeBudgetClient.batch (and of
\* _execute_batch_create_transaction, whose actions are all adds)
RECURSIVE EmitSyncActions(_, _, _, _)
EmitSyncActions(d, actions, device, f) ==
    IF actions = <<>> THEN [db |-> d, err |-> NoErr]
    ELSE LET a == Head(actions)
             n == IF a.verb = "Update" /\ a.changed # {}
                  THEN Cardinality(a.changed) ELSE 1
             r == CreateUpdatesForChanges(d, a.rec, OpName(a.verb, a.rec.kind),
                                          n, device, f)
         IN IF r.err # NoErr THEN [db |-> r.db, err |-> r.err]
            ELSE EmitSyncActions(r.db, Tail(actions), device, r.f)

\* -------------------------------------------------------------- sync codec
\* A byte string is a sequence of 0..255, a str of base64 text a sequence of
\* one-character strings.  A payload is the sequence of its (key, value)
\* items in insertion order; keys are single letters, values single digits.
MaxFields == 2                 \* most items of a payload

PayloadKeys == {"U", "a", "k"}
PayloadValues == {1, 4, 7}

\* ord() and chr() on the letters of PayloadKeys
Ord(c) == CASE c = "U" -> 85 [] c = "a" -> 97 [] OTHER -> 107
Chr(b) == CASE b = 85 -> "U" [] b = 97 -> "a" [] b = 107 -> "k" [] OTHER -> "?"

\* json.dumps(payload, separators=(",", ":")).encode("utf-8")
RECURSIVE JsonItems(_)
JsonItems(p) ==
    IF p = <<>> THEN <<>>
    ELSE <<34, Ord(p[1][1]), 34, 58, 48 + p[1][2]>>
         \o (IF Len(p) > 1 THEN <<44>> ELSE <<>>) \o JsonItems(Tail(p))

JsonDumps(p) == <<123>> \o JsonItems(p) \o <<125>>

\* the Adler-32 checksum that ends a zlib stream, most significant byte first
RECURSIVE AdlerSums(_, _, _)
AdlerSums(data, a, b) ==
    IF data = <<>> THEN <<a, b>>
    ELSE LET a2 == (a + Head(data)) % 65521
         IN AdlerSums(Tail(data), a2, (b + a2) % 65521)

Adler32(data) ==
    LET s == AdlerSums(data, 1, 0)
    IN <<s[2] \div 256, s[2] % 256, s[1] \div 256, s[1] % 256>>

\* the 8 bits of v, most significant first (a Huffman code in stream order)
Bits8(v) == [i \in 1..8 |-> (v \div 2^(8 - i)) % 2]

\* fixed Huffman codes of literals below 144: 8 bits, 00110000 + literal
RECURSIVE LiteralBits(_)
LiteralBits(data) ==
    IF data = <<>> THEN <<>>
    ELSE Bits8(48 + Head(data)) \o LiteralBits(Tail(data))

\* bits to bytes, least significant bit first, the last byte filled with 0
RECURSIVE PackBits(_)
PackBits(bits) ==
    IF bits = <<>> THEN <<>>
    ELSE LET b(i) == IF i <= Len(bits) THEN bits[i] * 2^(i - 1) ELSE 0
             rest == IF Len(bits) <= 8 THEN <<>> ELSE SubSeq(bits, 9, Len(bits))
         IN <<b(1) + b(2) + b(3) + b(4) + b(5) + b(6) + b(7) + b(8)>>
            \o PackBits(rest)

\* zlib.compress(data, level=9, wbits=15) of a text in which no three bytes
\* repeat (as in the payloads here, whose items differ in key and value):
\* header 78 DA, one final fixed-Huffman block of literals and the
\* end-of-block code, the Adler-32 of the data
ZlibCompress(data) ==
    <<120, 218>>
    \o PackBits(<<1, 1, 0>> \o LiteralBits(data) \o <<0, 0, 0, 0, 0, 0, 0>>)
    \o Adler32(data)

Zeros(n) == [i \in 1..n |-> 0]

\* Pad with `<=` taken for `<` and one byte too many
PadOneMore(compressed, cfg) ==
    IF cfg.pad_if_smaller /\ Len(compressed) <= cfg.min_size
    THEN compressed \o Zeros(cfg.min_size - Len(compressed) + 1)
    ELSE compressed

\* _encode_payload: `if pad_if_smaller and len(compressed) < min_size`
Pad(compressed, cfg) ==
    IF cfg.pad_if_smaller /\ Len(compressed) < cfg.min_size
    THEN compressed \o Zeros(cfg.min_size - Len(compressed))
    ELSE compressed

\* the base64 alphabet with its last two characters
B64Alphabet(c62, c63) ==
    <<"A", "B", "C", "D", "E", "F", "G", "H", "I", "J", "K", "L", "M", "N", "O",
      "P", "Q", "R", "S", "T", "U", "V", "W", "X", "Y", "Z", "a", "b", "c", "d",
      "e", "f", "g", "h", "i", "j", "k", "l", "m", "n", "o", "p", "q", "r", "s",
      "t", "u", "v", "w", "x", "y", "z", "0", "1", "2", "3", "4", "5", "6", "7",
      "8", "9", c62, c63>>

\* base64.urlsafe_b64encode(bytes).decode("ascii")
RECURSIVE UrlsafeB64Encode(_)
UrlsafeB64Encode(bytes) ==
    IF bytes = <<>> THEN <<>>
    ELSE LET n == Len(bytes)
             b2 == IF n >= 2 THEN bytes[2] ELSE 0
             b3 == IF n >= 3 THEN bytes[3] ELSE 0
             v == bytes[1] * 65536 + b2 * 256 + b3
             ch(i) == B64Alphabet("-", "_")[((v \div 64^(4 - i)) % 64) + 1]
         IN IF n = 1 THEN <<ch(1), ch(2), "=", "=">>
            ELSE IF n = 2 THEN <<ch(1), ch(2), ch(3), "=">>
            ELSE <<ch(1), ch(2), ch(3), ch(4)>>
                 \o UrlsafeB64Encode(SubSeq(bytes, 4, n))

\* s.rstrip(c)
RECURSIVE RStrip(_, _)
RStrip(s, c) ==
    IF s # <<>> /\ s[Len(s)] = c THEN RStrip(SubSeq(s, 1, Len(s) - 1), c) ELSE s

\* the bytes _encode_payload hands to base64
PaddedBytes(p, cfg) == Pad(ZlibCompress(JsonDumps(p)), cfg)

\* SyncUpdateManager._encode_payload
EncodePayload(p, cfg) == RStrip(UrlsafeB64Encode(PaddedBytes(p, cfg)), "=")

\* ---- decode_sync_payload (tests/utils/sync_payload.py)
ZlibTruncated == "zlib.error: Error -5 incomplete or truncated stream"
ZlibHeader == "zlib.error: Error -3 incorrect header check"
ZlibDataCheck == "zlib.error: Error -3 incorrect data check"
ZlibOtherCode == "zlib.error: a code ZlibCompress never writes"
B64Error == "binascii.Error"
JsonError == "json.JSONDecodeError"

\* s.replace(old, new) on single characters
Replace(s, old, new) == [i \in 1..Len(s) |-> IF s[i] = old THEN new ELSE s[i]]

IsB64Char(c) == \E i \in 1..64 : B64Alphabet("+", "/")[i] = c
B64Index(c) == (CHOOSE i \in 1..64 : B64Alphabet("+", "/")[i] = c) - 1

\* the bytes of groups of four characters, "=" ending the last group
RECURSIVE B64Quads(_)
B64Quads(s) ==
    IF s = <<>> THEN <<>>
    ELSE LET x(i) == IF s[i] = "=" THEN 0 ELSE B64Index(s[i])
             v == x(1) * 262144 + x(2) * 4096 + x(3) * 64 + x(4)
             bytes == <<v \div 65536, (v \div 256) % 256, v % 256>>
         IN IF s[3] = "=" THEN SubSeq(bytes, 1, 1)
            ELSE IF s[4] = "=" THEN SubSeq(bytes, 1, 2)
            ELSE bytes \o B64Quads(SubSeq(s, 5, Len(s)))

IsB64Data(c) == IsB64Char(c)
IsB64Text(c) == IsB64Char(c) \/ c = "="

\* base64.b64decode(s): characters outside the alphabet are discarded
B64Decode(s) ==
    LET t == SelectSeq(s, IsB64Text)
    IN IF Len(t) % 4 # 0 \/ Len(SelectSeq(t, IsB64Data)) % 4 = 1
       THEN [err |-> B64Error, bytes |-> <<>>]
       ELSE [err |-> NoErr, bytes |-> B64Quads(t)]

\* bytes to bits, least significant bit first
RECURSIVE UnpackBits(_)
UnpackBits(bytes) ==
    IF bytes = <<>> THEN <<>>
    ELSE [i \in 1..8 |-> (Head(bytes) \div 2^(i - 1)) % 2] \o UnpackBits(Tail(bytes))

\* the Huffman code of n bits at position i, most significant bit first
RECURSIVE HuffmanCode(_, _, _)
HuffmanCode(bits, i, n) ==
    IF n = 0 THEN 0 ELSE HuffmanCode(bits, i, n - 1) * 2 + bits[i + n - 1]

\* inflate of a fixed-Huffman block from bit i: literals until end-of-block
RECURSIVE InflateFixed(_, _, _)
InflateFixed(bits, i, out) ==
    IF i + 6 > Len(bits) THEN [err |-> ZlibTruncated, data |-> out, next |-> i]
    ELSE IF HuffmanCode(bits, i, 7) = 0
    THEN [err |-> NoErr, data |-> out, next |-> i + 7]
    ELSE IF i + 7 > Len(bits) THEN [err |-> ZlibTruncated, data |-> out, next |-> i]
    ELSE LET c == HuffmanCode(bits, i, 8)
         IN IF c >= 48 /\ c <= 191
            THEN InflateFixed(bits, i + 8, Append(out, c - 48))
            ELSE [err |-> ZlibOtherCode, data |-> out, next |-> i]

\* zlib.decompress(raw, wbits=15): header, deflate stream, Adler-32; bytes
\* after the checksum are ignored
ZlibDecompress(raw) ==
    LET bits == UnpackBits(SubSeq(raw, 3, Len(raw)))
        r == InflateFixed(bits, 4, <<>>)
        used == (r.next + 6) \div 8
        fail(e) == [err |-> e, data |-> <<>>]
    IN IF Len(raw) < 2 THEN fail(ZlibTruncated)
       ELSE IF raw[1] # 120 \/ (raw[1] * 256 + raw[2]) % 31 # 0
               \/ (raw[2] \div 32) % 2 = 1
       THEN fail(ZlibHeader)
       ELSE IF Len(bits) < 3 THEN fail(ZlibTruncated)
       ELSE IF SubSeq(bits, 1, 3) # <<1, 1, 0>> THEN fail(ZlibOtherCode)
       ELSE IF r.err # NoErr THEN fail(r.err)
       ELSE IF Len(raw) < 2 + used + 4 THEN fail(ZlibTruncated)
       ELSE IF SubSeq(raw, 3 + used, 6 + used) # Adler32(r.data)
       THEN fail(ZlibDataCheck)
       ELSE [err |-> NoErr, data |-> r.data]

\* json.loads of the text JsonDumps writes
RECURSIVE ParseItems(_, _, _)
ParseItems(b, i, acc) ==
    IF i + 5 <= Len(b) /\ b[i] = 34 /\ Chr(b[i + 1]) # "?" /\ b[i + 2] = 34
       /\ b[i + 3] = 58 /\ b[i + 4] \in 48..57
    THEN LET acc2 == Append(acc, <<Chr(b[i + 1]), b[i + 4] - 48>>)
         IN IF i + 5 = Len(b) /\ b[i + 5] = 125
            THEN [err |-> NoErr, value |-> acc2]
            ELSE IF b[i + 5] = 44 THEN ParseItems(b, i + 6, acc2)
            ELSE [err |-> JsonError, value |-> <<>>]
    ELSE [err |-> JsonError, value |-> <<>>]

JsonLoads(b) ==
    IF b = <<123, 125>> THEN [err |-> NoErr, value |-> <<>>]
    ELSE IF Len(b) > 2 /\ b[1] = 123 THEN ParseItems(b, 2, <<>>)
    ELSE [err |-> JsonError, value |-> <<>>]

\* decode_sync_payload
DecodeSyncPayload(e) ==
    LET cleaned == Replace(Replace(e, "-", "+"), "_", "/")
        padding == [i \in 1..((4 - (Len(cleaned) % 4)) % 4) |-> "="]
        raw == B64Decode(cleaned \o padding)
        inflated == ZlibDecompress(RStrip(raw.bytes, 0))
    IN IF raw.err # NoErr THEN [err |-> raw.err, value |-> <<>>]
       ELSE IF inflated.err # NoErr THEN [err |-> inflated.err, value |-> <<>>]
       ELSE JsonLoads(inflated.data)

\* the payloads and compression configurations of the codec runs
IsPayload(p) ==
    \A i, j \in 1..Len(p) : i # j => p[i][1] # p[j][1] /\ p[i][2] # p[j][2]

Payloads ==
    {p \in UNION {[1..n -> PayloadKeys \X PayloadValues] : n \in 0..MaxFields} :
        IsPayload(p)}

\* the compression entries of sync-config.json: a minimum size per
\* operation, padding switched on
Compressions == [min_size : {0, 15, 16, 64}, pad_if_smaller : {TRUE}]

\* the consolidated emission of _execute_batch_create_transaction: one
\* create_sync_record per successful record, all under one operation name
RECURSIVE EmitCreateSync(_, _, _, _, _)
EmitCreateSync(d, records, op, device, f) ==
    IF records = <<>> THEN [db |-> d, err |-> NoErr]
    ELSE LET r == CreateSyncRecord(d, Head(records), op, device, FaultNow(f))
         IN IF r.err # NoErr THEN [db |-> r.db, err |-> r.err]
            ELSE EmitCreateSync(r.db, Tail(records), op, device, FaultLater(f))

\* ------------------------------------------------------------------- state
VARIABLES
    committed,       \* the database as committed (what a new connection reads)
    db,              \* the database as the client's connection sees it
    txOpen,          \* the connection has an open transaction
    enable_sync,     \* HomeBudgetClient.enable_sync
    primaryDevice,   \* DeviceInfo holds a primary active device
    pc,              \* position of the call in progress
    call,            \* the call in progress
    ops,             \* batch operations attempted so far, in input order
    successful,      \* batch: records of the operations that succeeded
    failed,          \* batch: (operation, error) of the operations that failed
    sync_actions,    \* batch: (record, sync operation, changed fields)
    result,          \* single mutation: the record handed back
    outcome,         \* "none", "returned" or "raised"
    error,           \* the exception the caller received
    exc,             \* the exception that left begin, the action or commit
    rollbackTried,   \* Repository.rollback was called during the call
    pre,             \* the database the client was constructed on
    payload,         \* codec: the dictionary handed to _encode_payload
    compression,     \* codec: the operation's compression configuration
    encoded,         \* codec: the SyncUpdate.payload string
    decoded,         \* codec: what decode_sync_payload made of it
    forex,           \* normalizer: the monetary inputs of a caller
    normalized,      \* normalizer: what each normalizer made of them
    lookup,          \* rounding: the rate provider and the currency asked for
    places,          \* rounding: the decimal places resolved
    transfer,        \* transfers: the TransferDTO and its accounts' currencies
    added,           \* transfers: what add_transfer made of it
    row,             \* identity: the table row of one record
    seen,            \* identity: the records insert, update and get returned
    now,             \* identity: dt.datetime.now(), in whole seconds
    cache_file,      \* rates: the content of the cache file
    cache,           \* rates: ForexRateManager._cache
    utcnow,          \* rates: the clock, in hours
    asked,           \* rates: the last get_rate call and what it did
    ui,              \* UI control: one _run_transaction with the UI bracket
    entry,           \* add paths: a DTO, its account's currency and the rate
    paths            \* add paths: what add_* and add_*_batch stored for it

client == <<committed, db, txOpen, enable_sync, primaryDevice, pc, call, ops,
            successful, failed, sync_actions, result, outcome, error, exc,
            rollbackTried, pre>>
codec == <<payload, compression, encoded, decoded>>
normalizer == <<forex, normalized>>
rounding == <<lookup, places>>
transfers == <<transfer, added>>
identity == <<row, seen, now>>
ratecache == <<cache_file, cache, utcnow, asked>>
addpaths == <<entry, paths>>

aside == <<codec, normalizer, rounding, transfers, identity, ratecache, ui, addpaths>>
vars == <<client, aside>>

NoCall == [type |-> "none", kind |-> "none", key |-> 0, p |-> NoParams,
           np |-> NoParams, dto |-> NoDto, coe |-> FALSE, n |-> 0,
           original_sync_setting |-> FALSE, sync |-> FALSE]

\* the databases a client is constructed on
Databases == {EmptyDb, SeedDb}

\* a constructed client that has not been called
Constructed ==
    /\ db = committed
    /\ pre = committed
    /\ txOpen = FALSE
    /\ pc = "idle"
    /\ call = NoCall
    /\ ops = <<>>
    /\ successful = <<>>
    /\ failed = <<>>
    /\ sync_actions = <<>>
    /\ result = NoRec
    /\ outcome = "none"
    /\ error = NoErr
    /\ exc = NoErr
    /\ rollbackTried = FALSE

\* no payload is being encoded
NoCodec ==
    /\ payload = <<>>
    /\ compression = [min_size |-> 0, pad_if_smaller |-> FALSE]
    /\ encoded = <<>>
    /\ decoded = [err |-> "none", value |-> <<>>]

\* a normalizer result that was not computed
NotRun == [err |-> "none", amount |-> NoneN, currency |-> NoneS,
           currency_amount |-> NoneN]

\* no monetary input is being normalized
NoNormalizer ==
    /\ forex = [amount |-> NoneN, currency |-> NoneS, currency_amount |-> NoneN,
                exchange_rate |-> NoneN, allow_empty |-> FALSE]
    /\ normalized = [client |-> NotRun, again |-> NotRun, batch |-> NotRun,
                     cli |-> NotRun, dto |-> NotRun]

\* no decimal places are being resolved
NoRounding ==
    /\ lookup = [manager |-> FALSE, currency |-> NoneS, base_rate |-> 1,
                 currency_rate |-> 1]
    /\ places = [amount |-> NoneN, currency_amount |-> NoneN, stored |-> FALSE]

\* an add_transfer that was not called
NotAdded == [err |-> "none", rows |-> {}]

\* no transfer is being added outside the client call
NoTransfers ==
    /\ transfer = [from_currency |-> BASE_CURRENCY, to_currency |-> BASE_CURRENCY,
                   currency |-> NoneS, amount |-> 1, currency_amount |-> NoneN]
    /\ added = NotAdded

\* a table without the record
NoRow == [kind |-> "none", key |-> 0, amount |-> NoneN, notes |-> NoneS,
          timeStamp |-> NoneN]

\* no record is being followed outside the client call
NoIdentity ==
    /\ row = NoRow
    /\ seen = <<>>
    /\ now = 0

\* an empty rates dict, and the cache a manager without a readable file has
NoRates == 0
EmptyCache == [timestamp |-> NoneN, rates |-> NoRates]

\* a cache file that does not exist
MissingFile == [state |-> "missing", timestamp |-> NoneN, rates |-> NoRates]

\* no get_rate call was made
NotAsked == [from |-> NoneS, to |-> NoneS, fetch |-> NoRates, fetched |-> FALSE,
             saved |-> FALSE, at |-> 0, before |-> EmptyCache,
             file_before |-> MissingFile, rate |-> <<0, 0>>, err |-> "none"]

\* no rate manager is being followed outside the client call
NoRateCache ==
    /\ cache_file = MissingFile
    /\ cache = EmptyCache
    /\ utcnow = 0
    /\ asked = NotAsked

\* a client whose _run_transaction was not entered
UiIdle == [enable_ui_control |-> FALSE, pc |-> "idle", log |-> <<>>,
           stored |-> 0, written |-> 0, result |-> NoneN, exc |-> NoErr,
           error |-> NoErr]

\* no UI bracket is being followed outside the client call
NoUi == ui = UiIdle

\* no DTO is being added along the two add paths
NoEntry == [kind |-> "none", account_currency |-> NoneS, amount |-> NoneN,
            currency |-> NoneS, currency_amount |-> NoneN, rate |-> NoneN,
            enable_sync |-> FALSE]
NotStored == [single |-> <<>>, batch |-> <<>>]

NoAddPaths ==
    /\ entry = NoEntry
    /\ paths = NotStored

Init ==
    /\ committed \in Databases
    /\ enable_sync \in BOOLEAN
    /\ primaryDevice \in BOOLEAN
    /\ Constructed
    /\ NoCodec
    /\ NoNormalizer
    /\ NoRounding
    /\ NoTransfers
    /\ NoIdentity
    /\ NoRateCache
    /\ NoUi
    /\ NoAddPaths

\* ------------------------------------------------------- transaction frame
\* the client is called
Enter(c) ==
    /\ pc = "idle"
    /\ call' = [c EXCEPT !.sync = enable_sync]
    /\ UNCHANGED <<committed, db, primaryDevice, ops, successful, failed,
                   sync_actions, result, rollbackTried, pre>>
    /\ UNCHANGED aside

\* RaiseEarly with the exception raised after BEGIN was executed
RaiseInsideTransaction(e) ==
    /\ pc' = "done"
    /\ outcome' = "raised"
    /\ error' = e
    /\ exc' = e
    /\ txOpen' = TRUE
    /\ UNCHANGED enable_sync

\* the call raises before _run_transaction is reached
RaiseEarly(e) ==
    /\ pc' = "done"
    /\ outcome' = "raised"
    /\ error' = e
    /\ exc' = e
    /\ UNCHANGED <<txOpen, enable_sync>>

\* Repository.begin_transaction, the first statement of execute_transaction
\* (outside its try).  flagOff: the batch action sets enable_sync to False
\* as it starts.
BeginTransaction(beginFails, next, flagOff) ==
    IF beginFails
    THEN /\ pc' = "done"
         /\ outcome' = "raised"
         /\ error' = BeginError
         /\ exc' = BeginError
         /\ UNCHANGED <<txOpen, enable_sync>>
    ELSE /\ txOpen' = TRUE
         /\ pc' = next
         /\ outcome' = "none"
         /\ error' = NoErr
         /\ exc' = NoErr
         /\ enable_sync' = IF flagOff THEN FALSE ELSE enable_sync

\* Repository.commit, after the action returned
Commit(commitFails) ==
    /\ pc = "commit"
    /\ IF commitFails
       THEN /\ exc' = CommitError
            /\ pc' = "rollback"
            /\ UNCHANGED <<committed, txOpen, outcome>>
       ELSE /\ committed' = db
            /\ txOpen' = FALSE
            /\ outcome' = "returned"
            /\ pc' = "done"
            /\ exc' = exc
    /\ UNCHANGED <<db, enable_sync, primaryDevice, call, ops, successful, failed,
                   sync_actions, result, error, rollbackTried, pre>>
    /\ UNCHANGED aside

\* except Exception: self.repository.rollback(); raise
\* An exception raised by rollback() leaves the handler in place of `e`.
RollbackOutcome(e, rollbackFails) ==
    IF rollbackFails THEN RollbackError ELSE e

\* Rollback with the handler re-raising without calling rollback
RollbackNotCalled(rollbackFails) ==
    /\ pc = "rollback"
    /\ error' = exc
    /\ outcome' = "raised"
    /\ pc' = "done"
    /\ UNCHANGED <<committed, db, txOpen, enable_sync, primaryDevice, call, ops,
                   successful, failed, sync_actions, result, exc, rollbackTried,
                   pre>>
    /\ UNCHANGED aside

Rollback(rollbackFails) ==
    /\ pc = "rollback"
    /\ rollbackTried' = TRUE
    /\ error' = RollbackOutcome(exc, rollbackFails)
    /\ outcome' = "raised"
    /\ pc' = "done"
    /\ IF rollbackFails
       THEN UNCHANGED <<db, txOpen>>
       ELSE db' = committed /\ txOpen' = FALSE
    /\ UNCHANGED <<committed, enable_sync, primaryDevice, call, ops, successful,
                   failed, sync_actions, result, exc, pre>>
    /\ UNCHANGED aside

\* ------------------------------------------------------- single mutations
\* add_expense / add_income / add_transfer up to begin.  A DTO that is not
\* valid names a missing category (expense: found by insert_expense) or a
\* missing account (income, transfer: found by _infer_currency_for_*).
CallAdd(kind, amount, valid, beginFails) ==
    /\ Enter([NoCall EXCEPT !.type = "add", !.kind = kind,
                            !.dto = MakeDto(kind, amount, NoneS, NoneN, valid)])
    /\ IF ~valid /\ kind # "expense"
       THEN RaiseEarly(NotFoundError)
       ELSE BeginTransaction(beginFails, "action", FALSE)

\* update_expense / update_income / update_transfer up to begin
CallUpdate(kind, key, p, rate, beginFails) ==
    LET n == NormalizeForexInputs(p.amount, p.currency, p.currency_amount,
                                  p.exchange_rate, p.notes # NoneS, rate)
    IN /\ Enter([NoCall EXCEPT !.type = "update", !.kind = kind, !.key = key,
                   !.p = p,
                   !.np = [amount |-> n.amount, notes |-> p.notes,
                           currency |-> n.currency,
                           currency_amount |-> n.currency_amount,
                           exchange_rate |-> NoneN]])
       /\ IF n.err # NoErr
          THEN RaiseEarly(n.err)
          ELSE BeginTransaction(beginFails, "action", FALSE)

\* delete_expense / delete_income / delete_transfer up to begin
CallDelete(kind, key, beginFails) ==
    /\ Enter([NoCall EXCEPT !.type = "delete", !.kind = kind, !.key = key])
    /\ BeginTransaction(beginFails, "action", FALSE)

\* the storage part of the action of _execute_create_transaction,
\* _execute_update_transaction and _execute_delete_transaction
StorageStep(d, c, fault) ==
    CASE c.type = "add" -> InsertRecord(d, c.dto, fault)
      [] c.type = "update" -> UpdateRecord(d, c.kind, c.key, c.np, fault)
      [] OTHER ->
         LET g == GetRecord(d, c.kind, c.key)
             r == DeleteRecord(d, c.kind, c.key, fault)
         IN IF g.err # NoErr THEN [db |-> d, rec |-> NoRec, err |-> g.err]
            ELSE [db |-> r.db, rec |-> (IF r.err = NoErr THEN g.rec ELSE NoRec),
                  err |-> r.err]

Verb(type) ==
    CASE type = "add" -> "Add" [] type = "update" -> "Update" [] OTHER -> "Delete"

\* the sync part of those actions: `if manager and sync_operation`
SyncStep(d, c, rec, sync, device, f) ==
    IF ~sync THEN [db |-> d, err |-> NoErr]
    ELSE IF c.type = "update"
    THEN LET r == CreateUpdatesForChanges(d, rec, OpName("Update", c.kind),
                      Cardinality(CollectChangedFields(c.np)), device, f)
         IN [db |-> r.db, err |-> r.err]
    ELSE CreateSyncRecord(d, rec, OpName(Verb(c.type), c.kind), device,
                          FaultNow(f))

\* SingleAction with the sync emission's exception swallowed
SingleActionSyncIgnored(fault, f) ==
    /\ pc = "action"
    /\ LET r == StorageStep(db, call, fault)
           s == IF r.err # NoErr THEN [db |-> r.db, err |-> r.err]
                ELSE [db |-> SyncStep(r.db, call, r.rec, enable_sync,
                                      primaryDevice, f).db, err |-> NoErr]
       IN /\ db' = s.db
          /\ IF s.err = NoErr
             THEN result' = r.rec /\ pc' = "commit" /\ exc' = exc
             ELSE result' = result /\ pc' = "rollback" /\ exc' = s.err
    /\ UNCHANGED <<committed, txOpen, enable_sync, primaryDevice, call, ops,
                   successful, failed, sync_actions, outcome, error,
                   rollbackTried, pre>>
    /\ UNCHANGED aside

\* action() of a single mutation: storage, then sync, inside the try
SingleAction(fault, f) ==
    /\ pc = "action"
    /\ LET r == StorageStep(db, call, fault)
           s == IF r.err # NoErr THEN [db |-> r.db, err |-> r.err]
                ELSE SyncStep(r.db, call, r.rec, enable_sync, primaryDevice, f)
       IN /\ db' = s.db
          /\ IF s.err = NoErr
             THEN result' = r.rec /\ pc' = "commit" /\ exc' = exc
             ELSE result' = result /\ pc' = "rollback" /\ exc' = s.err
    /\ UNCHANGED <<committed, txOpen, enable_sync, primaryDevice, call, ops,
                   successful, failed, sync_actions, outcome, error,
                   rollbackTried, pre>>
    /\ UNCHANGED aside

\* ------------------------------------------------------------------ batches
\* batch(operations, continue_on_error) up to the first statements of its
\* action: original_sync_setting = self.enable_sync; self.enable_sync = False
CallBatch(coe, n, beginFails) ==
    /\ Enter([NoCall EXCEPT !.type = "batch", !.coe = coe, !.n = n,
                            !.original_sync_setting = enable_sync])
    /\ BeginTransaction(beginFails, "loop", TRUE)

\* add_expenses_batch / add_incomes_batch / add_transfers_batch(items,
\* continue_on_error), likewise
CallAddBatch(kind, coe, n, beginFails) ==
    /\ Enter([NoCall EXCEPT !.type = "add_batch", !.kind = kind, !.coe = coe,
                            !.n = n, !.original_sync_setting = enable_sync])
    /\ BeginTransaction(beginFails, "loop", TRUE)

\* Collect with continue_on_error taken as true whatever the caller passed
CollectAlwaysContinue(op, r) ==
    /\ ops' = Append(ops, op)
    /\ db' = r.db
    /\ IF r.err = NoErr
       THEN /\ successful' = Append(successful, r.rec)
            /\ sync_actions' = Append(sync_actions,
                  [rec |-> r.rec, verb |-> r.verb, changed |-> r.changed])
            /\ UNCHANGED failed
       ELSE /\ failed' = Append(failed, [op |-> op, err |-> r.err])
            /\ UNCHANGED <<successful, sync_actions>>
    /\ UNCHANGED <<committed, txOpen, primaryDevice, call, result, outcome, error,
                   rollbackTried, pre, exc, pc, enable_sync>>
    /\ UNCHANGED aside

\* Collect with a failing item skipped instead of recorded
CollectFailureDropped(op, r) ==
    /\ ops' = Append(ops, op)
    /\ db' = r.db
    /\ IF r.err = NoErr
       THEN /\ successful' = Append(successful, r.rec)
            /\ sync_actions' = Append(sync_actions,
                  [rec |-> r.rec, verb |-> r.verb, changed |-> r.changed])
            /\ UNCHANGED <<failed, exc, pc, enable_sync>>
       ELSE IF call.coe
       THEN UNCHANGED <<failed, successful, sync_actions, exc, pc, enable_sync>>
       ELSE /\ exc' = r.err
            /\ pc' = "rollback"
            /\ enable_sync' = call.original_sync_setting
            /\ UNCHANGED <<successful, sync_actions, failed>>
    /\ UNCHANGED <<committed, txOpen, primaryDevice, call, result, outcome, error,
                   rollbackTried, pre>>
    /\ UNCHANGED aside

\* the body of both loops: the outcome r of one item is recorded, or leaves
\* the loop (the finally clause restores enable_sync on the way out)
Collect(op, r) ==
    /\ ops' = Append(ops, op)
    /\ db' = r.db
    /\ IF r.err = NoErr
       THEN /\ successful' = Append(successful, r.rec)
            /\ sync_actions' = Append(sync_actions,
                  [rec |-> r.rec, verb |-> r.verb, changed |-> r.changed])
            /\ UNCHANGED <<failed, exc, pc, enable_sync>>
       ELSE IF call.coe
       THEN /\ failed' = Append(failed, [op |-> op, err |-> r.err])
            /\ UNCHANGED <<successful, sync_actions, exc, pc, enable_sync>>
       ELSE /\ exc' = r.err
            /\ pc' = "rollback"
            /\ enable_sync' = call.original_sync_setting
            /\ UNCHANGED <<successful, sync_actions, failed>>
    /\ UNCHANGED <<committed, txOpen, primaryDevice, call, result, outcome, error,
                   rollbackTried, pre>>
    /\ UNCHANGED aside

\* one iteration of `for operation in operations` of batch
BatchItem(op, fault, rate) ==
    /\ pc = "loop"
    /\ call.type = "batch"
    /\ Len(ops) < call.n
    /\ Collect(op, ApplyBatchOperation(db, op, fault, rate))

\* CreateItem with the sync row of an inserted record written at once
CreateItemSyncsAtOnce(op, fault) ==
    /\ pc = "loop"
    /\ call.type = "add_batch"
    /\ Len(ops) < call.n
    /\ op.resource = call.kind
    /\ LET i == InsertRecord(db, MakeDto(op.resource, op.p.amount, NoneS, NoneN,
                                         op.valid), fault)
           s == IF i.err = NoErr /\ call.original_sync_setting
                THEN CreateSyncRecord(i.db, i.rec, OpName("Add", call.kind),
                                      primaryDevice, NoErr).db
                ELSE i.db
       IN Collect(op, [db |-> s, rec |-> i.rec, err |-> i.err, verb |-> "Add",
                       changed |-> {}])

\* one iteration of `for item in items` of _execute_batch_create_transaction
CreateItem(op, fault) ==
    /\ pc = "loop"
    /\ call.type = "add_batch"
    /\ Len(ops) < call.n
    /\ op.resource = call.kind
    /\ LET i == InsertRecord(db, MakeDto(op.resource, op.p.amount, NoneS, NoneN,
                                         op.valid), fault)
       IN Collect(op, [db |-> i.db, rec |-> i.rec, err |-> i.err, verb |-> "Add",
                       changed |-> {}])

\* AfterLoop with the flag left as the loop had it
AfterLoopFlagLeftOff(s) ==
    /\ db' = s.db
    /\ IF s.err = NoErr
       THEN pc' = "commit" /\ exc' = exc
       ELSE pc' = "rollback" /\ exc' = s.err
    /\ UNCHANGED <<committed, txOpen, enable_sync, primaryDevice, call, ops,
                   successful, failed, sync_actions, result, outcome, error,
                   rollbackTried, pre>>
    /\ UNCHANGED aside

\* after either loop: restore the flag, emit the consolidated sync rows
AfterLoop(s) ==
    /\ enable_sync' = call.original_sync_setting
    /\ db' = s.db
    /\ IF s.err = NoErr
       THEN pc' = "commit" /\ exc' = exc
       ELSE pc' = "rollback" /\ exc' = s.err
    /\ UNCHANGED <<committed, txOpen, primaryDevice, call, ops, successful, failed,
                   sync_actions, result, outcome, error, rollbackTried, pre>>
    /\ UNCHANGED aside

BatchSync(f) ==
    /\ pc = "loop"
    /\ call.type = "batch"
    /\ Len(ops) = call.n
    /\ AfterLoop(IF call.original_sync_setting
                 THEN EmitSyncActions(db, sync_actions, primaryDevice, f)
                 ELSE [db |-> db, err |-> NoErr])

CreateSync(f) ==
    /\ pc = "loop"
    /\ call.type = "add_batch"
    /\ Len(ops) = call.n
    /\ AfterLoop(IF call.original_sync_setting
                 THEN EmitCreateSync(db, successful, OpName("Add", call.kind),
                                     primaryDevice, f)
                 ELSE [db |-> db, err |-> NoErr])

Next ==
    \/ \E k \in Kinds, a \in Amounts, v \in BOOLEAN, bf \in BOOLEAN :
          CallAdd(k, a, v, bf)
    \/ \E k \in Kinds, key \in 1..MaxKey, p \in UpdateParams, r \in Rates,
          bf \in BOOLEAN : CallUpdate(k, key, p, r, bf)
    \/ \E k \in Kinds, key \in 1..MaxKey, bf \in BOOLEAN : CallDelete(k, key, bf)
    \/ \E fault \in Faults, f \in SyncFaults : SingleAction(fault, f)
    \/ \E coe \in BOOLEAN, n \in 0..MaxItems, bf \in BOOLEAN : CallBatch(coe, n, bf)
    \/ \E k \in Kinds, coe \in BOOLEAN, n \in 0..MaxItems, bf \in BOOLEAN :
          CallAddBatch(k, coe, n, bf)
    \/ \E op \in BatchOps, fault \in Faults : BatchItem(op, fault, BatchRate)
    \/ \E k \in Kinds : \E op \in DtoOps(k), fault \in Faults :
          CreateItem(op, fault)
    \/ \E f \in SyncFaults : BatchSync(f)
    \/ \E f \in SyncFaults : CreateSync(f)
    \/ \E cf \in BOOLEAN : Commit(cf)
    \/ \E rf \in BOOLEAN : Rollback(rf)

Spec == Init /\ [][Next]_vars

\* ----------------------------------------------------------- codec runs
\* a payload and a compression configuration are given, no client call runs
CodecInit ==
    /\ payload \in Payloads
    /\ compression \in Compressions
    /\ encoded = <<>>
    /\ decoded = [err |-> "none", value |-> <<>>]
    /\ committed = EmptyDb
    /\ enable_sync = TRUE
    /\ primaryDevice = TRUE
    /\ Constructed
    /\ NoNormalizer
    /\ NoRounding
    /\ NoTransfers
    /\ NoIdentity
    /\ NoRateCache
    /\ NoUi
    /\ NoAddPaths

\* SyncUpdateManager._encode_payload(payload, record, operation)
Encode ==
    /\ encoded = <<>>
    /\ encoded' = EncodePayload(payload, compression)
    /\ UNCHANGED <<payload, compression, decoded>>
    /\ UNCHANGED <<client, normalizer, rounding, transfers, identity, ratecache, ui, addpaths>>

\* decode_sync_payload(SyncUpdate.payload)
Decode ==
    /\ encoded # <<>>
    /\ decoded.err = "none"
    /\ decoded' = DecodeSyncPayload(encoded)
    /\ UNCHANGED <<payload, compression, encoded>>
    /\ UNCHANGED <<client, normalizer, rounding, transfers, identity, ratecache, ui, addpaths>>

CodecNext == Encode \/ Decode

CodecSpec == CodecInit /\ [][CodecNext]_vars

\* ------------------------------------------------------- normalizer runs
\* the monetary inputs a caller may pass
ForexInputs ==
    [amount : {NoneN} \cup Amounts, currency : {NoneS, "USD"},
     currency_amount : {NoneN} \cup Amounts, exchange_rate : {NoneN} \cup Rates,
     allow_empty : BOOLEAN]

\* monetary inputs are given, no client call runs and nothing is encoded
NormalizerInit ==
    /\ forex \in ForexInputs
    /\ normalized = [client |-> NotRun, again |-> NotRun, batch |-> NotRun,
                     cli |-> NotRun, dto |-> NotRun]
    /\ committed = EmptyDb
    /\ enable_sync = TRUE
    /\ primaryDevice = TRUE
    /\ Constructed
    /\ NoCodec
    /\ NoRounding
    /\ NoTransfers
    /\ NoIdentity
    /\ NoRateCache
    /\ NoUi
    /\ NoAddPaths

\* _normalize_forex_inputs on the inputs; the rate provider answers `rate`
Normalize(rate) ==
    /\ normalized.client = NotRun
    /\ normalized' = [normalized EXCEPT !.client =
          NormalizeForexInputs(forex.amount, forex.currency,
                               forex.currency_amount, forex.exchange_rate,
                               forex.allow_empty, rate)]
    /\ UNCHANGED <<forex, client, codec, rounding, transfers, identity, ratecache, ui, addpaths>>

\* _normalize_forex_inputs on the triple it returned, without exchange_rate
Renormalize(rate) ==
    /\ normalized.client.err = NoErr
    /\ normalized.again = NotRun
    /\ normalized' = [normalized EXCEPT !.again =
          NormalizeForexInputs(normalized.client.amount,
                               normalized.client.currency,
                               normalized.client.currency_amount, NoneN,
                               forex.allow_empty, rate)]
    /\ UNCHANGED <<forex, client, codec, rounding, transfers, identity, ratecache, ui, addpaths>>

\* _resolve_batch_forex_add on the inputs
ResolveBatchAdd ==
    /\ normalized.batch = NotRun
    /\ normalized' = [normalized EXCEPT !.batch =
          ResolveBatchForexAdd(forex.amount, forex.currency,
                               forex.currency_amount, forex.exchange_rate)]
    /\ UNCHANGED <<forex, client, codec, rounding, transfers, identity, ratecache, ui, addpaths>>

\* resolve_forex_inputs of a CLI command on the inputs
ResolveCli(default_currency_amount, provider) ==
    /\ normalized.cli = NotRun
    /\ normalized' = [normalized EXCEPT !.cli =
          ResolveForexInputs(forex.amount, forex.currency,
                             forex.currency_amount, forex.exchange_rate,
                             default_currency_amount, forex.allow_empty,
                             provider) @@ [dflt |-> default_currency_amount]]
    /\ UNCHANGED <<forex, client, codec, rounding, transfers, identity, ratecache, ui, addpaths>>

\* ExpenseDTO / IncomeDTO / TransferDTO(...) with the monetary inputs
ConstructDto ==
    /\ normalized.dto = NotRun
    /\ normalized' = [normalized EXCEPT !.dto =
          ValidateCurrency(forex.amount, forex.currency, forex.currency_amount)]
    /\ UNCHANGED <<forex, client, codec, rounding, transfers, identity, ratecache, ui, addpaths>>

NormalizerNext ==
    \/ ConstructDto
    \/ \E rate \in Rates : Normalize(rate)
    \/ \E rate \in Rates : Renormalize(rate)
    \/ ResolveBatchAdd
    \/ \E d \in BOOLEAN, provider \in {NoneN} \cup Rates : ResolveCli(d, provider)

NormalizerSpec == NormalizerInit /\ [][NormalizerNext]_vars

\* --------------------------------------------------------- rounding policy
HIGH_VALUE_RATE_THRESHOLD == 100
HIGH_VALUE_DECIMAL_PLACES == 0
STANDARD_DECIMAL_PLACES == 2
DEFAULT_DECIMAL_PLACES == 2
ALLOWED_DECIMAL_PLACES == {0, 2}

RateSpread == 2                \* rates looked up reach this far around the threshold
LookupFailed == 0 - 1          \* in place of a rate: ForexRateManager.get_rate raised

\* what get_rate(REF_CURRENCY, currency) may answer
LookupRates ==
    {1} \cup ((HIGH_VALUE_RATE_THRESHOLD - RateSpread)
                 ..(HIGH_VALUE_RATE_THRESHOLD + RateSpread))
LookupResults == LookupRates \cup {LookupFailed}

\* HomeBudgetClient._get_currency_decimal_places.  manager: the client has
\* a ForexRateManager; rate: the outcome of its get_rate
GetCurrencyDecimalPlaces(manager, rate) ==
    IF ~manager THEN STANDARD_DECIMAL_PLACES
    ELSE IF rate = LookupFailed THEN STANDARD_DECIMAL_PLACES
    ELSE IF rate >= HIGH_VALUE_RATE_THRESHOLD THEN HIGH_VALUE_DECIMAL_PLACES
    ELSE STANDARD_DECIMAL_PLACES

\* HomeBudgetClient._resolve_rounding_policy(currency)
ResolveRoundingPolicy(l) ==
    LET amount_decimal_places == GetCurrencyDecimalPlaces(l.manager, l.base_rate)
    IN [amount |-> amount_decimal_places,
        currency_amount |->
            IF l.currency # NoneS
            THEN GetCurrencyDecimalPlaces(l.manager, l.currency_rate)
            ELSE amount_decimal_places]

\* Repository._resolve_decimal_places
ResolveDecimalPlaces(decimal_places) ==
    IF decimal_places = NoneN THEN [err |-> NoErr, places |-> DEFAULT_DECIMAL_PLACES]
    ELSE IF decimal_places \notin ALLOWED_DECIMAL_PLACES
    THEN [err |-> ValueError, places |-> NoneN]
    ELSE [err |-> NoErr, places |-> decimal_places]

\* a currency and a rate provider are given, nothing else runs
RoundingInit ==
    /\ lookup \in [manager : BOOLEAN, currency : {NoneS, "JPY"},
                   base_rate : LookupResults, currency_rate : LookupResults]
    /\ places = [amount |-> NoneN, currency_amount |-> NoneN, stored |-> FALSE]
    /\ committed = EmptyDb
    /\ enable_sync = TRUE
    /\ primaryDevice = TRUE
    /\ Constructed
    /\ NoCodec
    /\ NoNormalizer
    /\ NoTransfers
    /\ NoIdentity
    /\ NoRateCache
    /\ NoUi
    /\ NoAddPaths

\* the client resolves the rounding policy of a mutation
ResolvePolicy ==
    /\ places.amount = NoneN
    /\ places' = ResolveRoundingPolicy(lookup) @@ [stored |-> FALSE]
    /\ UNCHANGED <<lookup, client, codec, normalizer, transfers, identity, ratecache, ui, addpaths>>

\* the repository resolves the places the client handed over
StorePlaces ==
    /\ places.amount # NoneN
    /\ ~places.stored
    /\ LET a == ResolveDecimalPlaces(places.amount)
           c == ResolveDecimalPlaces(places.currency_amount)
       IN /\ a.err = NoErr /\ c.err = NoErr
          /\ places' = [amount |-> a.places, currency_amount |-> c.places,
                        stored |-> TRUE]
    /\ UNCHANGED <<lookup, client, codec, normalizer, transfers, identity, ratecache, ui, addpaths>>

RoundingNext == ResolvePolicy \/ StorePlaces

RoundingSpec == RoundingInit /\ [][RoundingNext]_vars

\* ------------------------------------------------------ transfer currency
Currencies == {BASE_CURRENCY, "USD", "EUR"}

\* the TransferDTO of a caller, with the currency of its two accounts
TransferInputs ==
    [from_currency : Currencies, to_currency : Currencies,
     currency : {NoneS} \cup Currencies, amount : Amounts,
     currency_amount : {NoneN} \cup Amounts]

\* HomeBudgetClient._infer_currency_for_transfer on a client without a forex
\* manager: _get_forex_rate answers 1.0, so each of the three cases leaves
\* the amount and sets currency_amount to it
InferCurrencyForTransfer(t) ==
    IF t.currency # NoneS \/ t.currency_amount # NoneN THEN t
    ELSE IF t.from_currency = t.to_currency THEN t
    ELSE [t EXCEPT !.currency = t.from_currency, !.currency_amount = t.amount]

\* HomeBudgetClient._validate_transfer_currency_constraint
ValidateTransferCurrencyConstraint(t) ==
    IF t.currency = NoneS THEN NoErr
    ELSE IF t.currency # t.from_currency THEN ValueError
    ELSE NoErr

\* the Transfer row Repository.insert_transfer writes for the DTO
TransferRow(t) ==
    [currency |-> IF t.currency = NoneS THEN t.from_currency ELSE t.currency,
     amount |-> t.amount,
     currency_amount |-> IF t.currency_amount = NoneN THEN t.amount
                         ELSE t.currency_amount]

\* HomeBudgetClient.add_transfer: infer, validate, insert
AddTransfer(t) ==
    LET inferred == InferCurrencyForTransfer(t)
        e == ValidateTransferCurrencyConstraint(inferred)
    IN IF e # NoErr THEN [err |-> e, rows |-> {}]
       ELSE [err |-> NoErr, rows |-> {TransferRow(inferred)}]

\* a transfer is given, nothing else runs
TransferInit ==
    /\ transfer \in TransferInputs
    /\ added = NotAdded
    /\ committed = EmptyDb
    /\ enable_sync = TRUE
    /\ primaryDevice = TRUE
    /\ Constructed
    /\ NoCodec
    /\ NoNormalizer
    /\ NoRounding
    /\ NoIdentity
    /\ NoRateCache
    /\ NoUi
    /\ NoAddPaths

\* the caller adds the transfer
CallAddTransfer ==
    /\ added = NotAdded
    /\ added' = AddTransfer(transfer)
    /\ UNCHANGED <<transfer, client, codec, normalizer, rounding, identity, ratecache, ui, addpaths>>

TransferNext == CallAddTransfer

TransferSpec == TransferInit /\ [][TransferNext]_vars

\* --------------------------------------------------------- record identity
MaxClock == 3        \* the clock reads 1..MaxClock
MaxSeen == 3         \* records returned to the caller in one run

\* the row insert_expense / insert_income / insert_transfer writes at `time`.
\* Expense and Income have a timeStamp column, Transfer has none; a time is
\* the second strftime("%Y-%m-%d %H:%M:%S") prints.
InsertedRow(kind, key, amount, time) ==
    [kind |-> kind, key |-> key, amount |-> amount, notes |-> "",
     timeStamp |-> IF kind = "transfer" THEN NoneN ELSE time]

\* the record insert_* returns: built from the arguments and the timestamp
InsertedRecord(kind, key, amount, time) ==
    [kind |-> kind, key |-> key, amount |-> amount, notes |-> "",
     time_stamp |-> time]

\* get_expense / get_income read the timeStamp column; get_transfer answers
\* time_stamp=None
FetchedRecord(r) ==
    [kind |-> r.kind, key |-> r.key, amount |-> r.amount, notes |-> r.notes,
     time_stamp |-> IF r.kind = "transfer" THEN NoneN ELSE r.timeStamp]

\* the UPDATE of update_expense / update_income / update_transfer: SET names
\* the given columns among amount, notes, currency, currencyAmount
UpdatedRow(r, amount, notes) ==
    [r EXCEPT !.amount = IF amount # NoneN THEN amount ELSE @,
              !.notes = IF notes # NoneS THEN notes ELSE @]

\* the clock is read, nothing else runs
IdentityInit ==
    /\ row = NoRow
    /\ seen = <<>>
    /\ now \in 1..MaxClock
    /\ committed = EmptyDb
    /\ enable_sync = TRUE
    /\ primaryDevice = TRUE
    /\ Constructed
    /\ NoCodec
    /\ NoNormalizer
    /\ NoRounding
    /\ NoTransfers
    /\ NoRateCache
    /\ NoUi
    /\ NoAddPaths

\* time passes
Tick ==
    /\ now < MaxClock
    /\ now' = now + 1
    /\ UNCHANGED <<row, seen, client, codec, normalizer, rounding, transfers, ratecache, ui, addpaths>>

\* Repository.insert_expense / insert_income / insert_transfer
InsertRow(kind, key, amount) ==
    /\ row = NoRow
    /\ row' = InsertedRow(kind, key, amount, now)
    /\ seen' = <<InsertedRecord(kind, key, amount, now)>>
    /\ UNCHANGED <<now, client, codec, normalizer, rounding, transfers, ratecache, ui, addpaths>>

\* Repository.update_expense / update_income / update_transfer of the record
UpdateRow(amount, notes) ==
    /\ row # NoRow
    /\ Len(seen) < MaxSeen
    /\ row' = UpdatedRow(row, amount, notes)
    /\ seen' = Append(seen, FetchedRecord(row'))
    /\ UNCHANGED <<now, client, codec, normalizer, rounding, transfers, ratecache, ui, addpaths>>

\* Repository.get_expense / get_income / get_transfer of the record
GetRow ==
    /\ row # NoRow
    /\ Len(seen) < MaxSeen
    /\ seen' = Append(seen, FetchedRecord(row))
    /\ UNCHANGED <<row, now, client, codec, normalizer, rounding, transfers, ratecache, ui, addpaths>>

IdentityNext ==
    \/ Tick
    \/ \E k \in Kinds, key \in 1..MaxKey, a \in Amounts : InsertRow(k, key, a)
    \/ GetRow
    \/ \E a \in {NoneN} \cup Amounts, n \in {NoneS, "n"} : UpdateRow(a, n)

IdentitySpec == IdentityInit /\ [][IdentityNext]_vars

\* --------------------------------------------------------- forex rate cache
DEFAULT_CACHE_TTL_HOURS == 1
REF_CURRENCY == "USD"
MaxHours == 3        \* the clock reads 0..MaxHours

\* the currency codes asked for; the rate API lists SGD and not EUR
RateCurrencies == {REF_CURRENCY, "SGD", "EUR"}

\* a rates dict {"SGD": r} is the number r
RateTables == {2, 3}

\* what _fetch_from_api does: raises, answers {} or answers a rates dict
FetchRaises == 0 - 1
FetchOutcomes == {FetchRaises, NoRates} \cup RateTables

\* a cache as _build_cache makes it at hour t
BuildCache(rates, t) == [timestamp |-> t, rates |-> rates]

\* the file _save_cache leaves
SavedFile(c) == [state |-> "written", timestamp |-> c.timestamp, rates |-> c.rates]

\* ForexRateManager._load_cache: {} for a missing or unreadable file
LoadCache(file) ==
    IF file.state = "written"
    THEN [timestamp |-> file.timestamp, rates |-> file.rates]
    ELSE EmptyCache

\* IsCacheValid with a cache as old as the TTL taken as expired
IsCacheValidYounger(c, t) ==
    /\ c.timestamp # NoneN
    /\ t - c.timestamp < DEFAULT_CACHE_TTL_HOURS

\* ForexRateManager._is_cache_valid at hour t
IsCacheValid(c, t) ==
    /\ c.timestamp # NoneN
    /\ t - c.timestamp <= DEFAULT_CACHE_TTL_HOURS

FetchError == "requests.RequestException"

\* GetRates without the try/except around the fetch
GetRatesFetchUnguarded(c, file, t, fetch) ==
    IF IsCacheValid(c, t) /\ c.rates # NoRates
    THEN [rates |-> c.rates, cache |-> c, file |-> file, fetched |-> FALSE,
          saved |-> FALSE, err |-> NoErr]
    ELSE IF fetch \in RateTables
    THEN [rates |-> fetch, cache |-> BuildCache(fetch, t),
          file |-> SavedFile(BuildCache(fetch, t)), fetched |-> TRUE,
          saved |-> TRUE, err |-> NoErr]
    ELSE [rates |-> c.rates, cache |-> c, file |-> file, fetched |-> TRUE,
          saved |-> FALSE,
          err |-> IF fetch = FetchRaises THEN FetchError ELSE NoErr]

\* ForexRateManager._get_rates: the rates, the cache and the file afterwards,
\* whether the API was called, whether the file was written, and the
\* exception that leaves it (none: `except Exception: pass`)
GetRates(c, file, t, fetch) ==
    IF IsCacheValid(c, t) /\ c.rates # NoRates
    THEN [rates |-> c.rates, cache |-> c, file |-> file, fetched |-> FALSE,
          saved |-> FALSE, err |-> NoErr]
    ELSE IF fetch \in RateTables
    THEN [rates |-> fetch, cache |-> BuildCache(fetch, t),
          file |-> SavedFile(BuildCache(fetch, t)), fetched |-> TRUE,
          saved |-> TRUE, err |-> NoErr]
    ELSE [rates |-> c.rates, cache |-> c, file |-> file, fetched |-> TRUE,
          saved |-> FALSE, err |-> NoErr]

\* the arithmetic of get_rate on a rates dict: a rate is <<numerator,
\* denominator>>, <<0, 0>> when ValueError is raised
RateFrom(rates, from, to) ==
    IF rates = NoRates THEN [rate |-> <<1, 1>>, err |-> NoErr]
    ELSE IF from # REF_CURRENCY /\ from # "SGD"
    THEN [rate |-> <<0, 0>>, err |-> ValueError]
    ELSE IF to # REF_CURRENCY /\ to # "SGD"
    THEN [rate |-> <<0, 0>>, err |-> ValueError]
    ELSE IF from = REF_CURRENCY THEN [rate |-> <<rates, 1>>, err |-> NoErr]
    ELSE [rate |-> <<1, rates>>, err |-> NoErr]

\* ForexRateManager.get_rate(from_currency, to_currency) at hour t
GetRate(c, file, t, from, to, fetch) ==
    IF from = to
    THEN [cache |-> c, file |-> file, fetched |-> FALSE, saved |-> FALSE,
          rate |-> <<1, 1>>, err |-> NoErr]
    ELSE LET g == GetRates(c, file, t, fetch)
             r == RateFrom(g.rates, from, to)
         IN IF g.err # NoErr
            THEN [cache |-> g.cache, file |-> g.file, fetched |-> g.fetched,
                  saved |-> g.saved, rate |-> <<0, 0>>, err |-> g.err]
            ELSE [cache |-> g.cache, file |-> g.file, fetched |-> g.fetched,
                  saved |-> g.saved, rate |-> r.rate, err |-> r.err]

\* the cache files an earlier manager may have left
CacheFiles ==
    {MissingFile, [MissingFile EXCEPT !.state = "corrupt"]}
    \cup {SavedFile(BuildCache(r, t)) : r \in RateTables, t \in 0..MaxHours}

\* ForexRateManager(config, cache_path) is constructed, nothing else runs
RateCacheInit ==
    /\ cache_file \in CacheFiles
    /\ cache = LoadCache(cache_file)
    /\ utcnow \in 0..MaxHours
    /\ cache.timestamp # NoneN => cache.timestamp <= utcnow
    /\ asked = NotAsked
    /\ committed = EmptyDb
    /\ enable_sync = TRUE
    /\ primaryDevice = TRUE
    /\ Constructed
    /\ NoCodec
    /\ NoNormalizer
    /\ NoRounding
    /\ NoTransfers
    /\ NoIdentity
    /\ NoUi
    /\ NoAddPaths

\* an hour passes
HourPasses ==
    /\ utcnow < MaxHours
    /\ utcnow' = utcnow + 1
    /\ UNCHANGED <<cache_file, cache, asked, client, codec, normalizer, rounding, transfers, identity, ui, addpaths>>

\* a caller asks for a rate; the API, if called, does `fetch`
CallGetRate(from, to, fetch) ==
    LET g == GetRate(cache, cache_file, utcnow, from, to, fetch)
    IN /\ cache' = g.cache
       /\ cache_file' = g.file
       /\ asked' = [from |-> from, to |-> to, fetch |-> fetch,
                    fetched |-> g.fetched, saved |-> g.saved,
                    at |-> utcnow, before |-> cache,
                    file_before |-> cache_file, rate |-> g.rate, err |-> g.err]
       /\ UNCHANGED <<utcnow, client, codec, normalizer, rounding, transfers, identity, ui, addpaths>>

RateCacheNext ==
    \/ HourPasses
    \/ \E from \in RateCurrencies, to \in RateCurrencies, fetch \in FetchOutcomes :
          CallGetRate(from, to, fetch)

RateCacheSpec == RateCacheInit /\ [][RateCacheNext]_vars

\* ---------------------------------------------------------------- UI control
\* _run_transaction(action) with the desktop UI bracket.  The storage is one
\* value (stored: committed, written: seen by the connection), the action
\* writes a value of Amounts or raises after writing; the log lists the calls
\* made to the UI controller and to the repository's transaction methods.
CloseError == "RuntimeError: Failed to close UI"
ReopenError == "RuntimeError: Failed to reopen UI"

\* where a call goes when execute_transaction is over: the finally clause
\* reopens the UI when UI control is on
AfterTransaction(u) == IF u.enable_ui_control THEN "reopen" ELSE "done"

\* a client is constructed with or without UI control
UiInit ==
    /\ ui \in {[UiIdle EXCEPT !.enable_ui_control = e] : e \in BOOLEAN}
    /\ committed = EmptyDb
    /\ enable_sync = TRUE
    /\ primaryDevice = TRUE
    /\ Constructed
    /\ NoCodec
    /\ NoNormalizer
    /\ NoRounding
    /\ NoTransfers
    /\ NoIdentity
    /\ NoRateCache
    /\ NoAddPaths

UiStep(u) ==
    /\ ui' = u
    /\ UNCHANGED <<client, codec, normalizer, rounding, transfers, identity, ratecache, addpaths>>

\* _run_transaction is entered: `if not self.enable_ui_control`
UiEnter ==
    /\ ui.pc = "idle"
    /\ UiStep([ui EXCEPT !.pc = IF ui.enable_ui_control THEN "close" ELSE "begin"])

\* HomeBudgetUIController.close(verify=True) answers (ok, message)
UiClose(ok) ==
    /\ ui.pc = "close"
    /\ UiStep(IF ok
              THEN [ui EXCEPT !.log = Append(@, "close ok"), !.pc = "begin"]
              ELSE [ui EXCEPT !.log = Append(@, "close failed"),
                              !.error = CloseError, !.pc = "done"])

\* self.repository.begin_transaction(), outside the try of
\* execute_transaction
UiBegin(ok) ==
    /\ ui.pc = "begin"
    /\ UiStep(IF ok
              THEN [ui EXCEPT !.log = Append(@, "begin"), !.pc = "action"]
              ELSE [ui EXCEPT !.log = Append(@, "begin"), !.error = BeginError,
                              !.pc = AfterTransaction(ui)])

\* what action() raises, NoErr when it returns
UiActionErrors == {NoErr, NotFoundError, DuplicateError, ValueError, StorageError}

\* action(): writes v and returns it, or raises e after writing or not
UiAction(v, e, wrote) ==
    /\ ui.pc = "action"
    /\ UiStep(IF e = NoErr
              THEN [ui EXCEPT !.written = v, !.result = v, !.pc = "commit"]
              ELSE [ui EXCEPT !.written = IF wrote THEN v ELSE @, !.exc = e,
                              !.pc = "rollback"])

\* self.repository.commit(); return result
UiCommit(ok) ==
    /\ ui.pc = "commit"
    /\ UiStep(IF ok
              THEN [ui EXCEPT !.log = Append(@, "commit"), !.stored = ui.written,
                              !.pc = AfterTransaction(ui)]
              ELSE [ui EXCEPT !.log = Append(@, "commit"), !.exc = CommitError,
                              !.result = NoneN, !.pc = "rollback"])

\* except Exception: self.repository.rollback(); raise
UiRollback(ok) ==
    /\ ui.pc = "rollback"
    /\ UiStep(IF ok
              THEN [ui EXCEPT !.log = Append(@, "rollback"), !.written = ui.stored,
                              !.error = ui.exc, !.pc = AfterTransaction(ui)]
              ELSE [ui EXCEPT !.log = Append(@, "rollback"),
                              !.error = RollbackError,
                              !.pc = AfterTransaction(ui)])

\* UiReopen with a failed reopen raised from the finally clause
UiReopenRaises(ok) ==
    /\ ui.pc = "reopen"
    /\ UiStep(IF ok
              THEN [ui EXCEPT !.log = Append(@, "open ok"), !.pc = "done"]
              ELSE [ui EXCEPT !.log = Append(@, "open failed"),
                              !.result = NoneN, !.error = ReopenError,
                              !.pc = "done"])

\* finally: HomeBudgetUIController.open(verify=True); a failure is printed
UiReopen(ok) ==
    /\ ui.pc = "reopen"
    /\ UiStep(IF ok
              THEN [ui EXCEPT !.log = Append(@, "open ok"), !.pc = "done"]
              ELSE [ui EXCEPT !.log = Append(@, "open failed"), !.pc = "done"])

UiNext ==
    \/ UiEnter
    \/ \E ok \in BOOLEAN : UiClose(ok)
    \/ \E ok \in BOOLEAN : UiBegin(ok)
    \/ \E v \in Amounts, e \in UiActionErrors, wrote \in BOOLEAN :
          UiAction(v, e, wrote)
    \/ \E ok \in BOOLEAN : UiCommit(ok)
    \/ \E ok \in BOOLEAN : UiRollback(ok)
    \/ \E ok \in BOOLEAN : UiReopen(ok)

UiSpec == UiInit /\ [][UiNext]_vars

\* ---------------------------------------------------------------- add paths
\* add_expense / add_income against add_expenses_batch / add_incomes_batch
\* of a one-element list, for one DTO.  rate: what _get_forex_rate answers
\* for the account's currency.
\* Amounts are whole numbers: the decimal places that both paths attach with
\* _apply_rounding_policy_* round nothing away and are left out.
AddEntries ==
    {e \in [kind : {"expense", "income"}, account_currency : Currencies,
            amount : Amounts, currency : {NoneS} \cup Currencies,
            currency_amount : {NoneN} \cup Amounts, rate : Rates,
            enable_sync : BOOLEAN] :
        ValidateCurrency(e.amount, e.currency, e.currency_amount).err = NoErr}

\* HomeBudgetClient._infer_currency_for_expense / _infer_currency_for_income
InferCurrency(e) ==
    IF e.currency # NoneS \/ e.currency_amount # NoneN THEN e
    ELSE IF e.account_currency = BASE_CURRENCY THEN e
    ELSE [e EXCEPT !.amount = e.amount * e.rate, !.currency = e.account_currency,
                   !.currency_amount = e.amount]

\* the record Repository.insert_expense / insert_income stores for the DTO
\* and hands back
InsertedFor(e) ==
    [kind |-> e.kind, amount |-> e.amount,
     currency |-> IF e.currency = NoneS THEN e.account_currency ELSE e.currency,
     currency_amount |-> IF e.currency_amount = NoneN THEN e.amount
                         ELSE e.currency_amount]

\* the SyncUpdate rows either path writes for the records it inserted
SyncRowsFor(e, records) == IF e.enable_sync THEN Len(records) ELSE 0

\* add_expense / add_income: infer, insert, one sync record
AddSingle(e) ==
    LET record == InsertedFor(InferCurrency(e))
    IN <<[record |-> record, sync_rows |-> SyncRowsFor(e, <<record>>)]>>

\* add_expenses_batch / add_incomes_batch of [dto]: insert each item, one
\* sync record per successful record
AddBatch(e) ==
    LET successful_records == <<InsertedFor(e)>>
    IN <<[record |-> successful_records[1],
          sync_rows |-> SyncRowsFor(e, successful_records)]>>

AddPathsInit ==
    /\ entry \in AddEntries
    /\ paths = NotStored
    /\ committed = EmptyDb
    /\ enable_sync = TRUE
    /\ primaryDevice = TRUE
    /\ Constructed
    /\ NoCodec
    /\ NoNormalizer
    /\ NoRounding
    /\ NoTransfers
    /\ NoIdentity
    /\ NoRateCache
    /\ NoUi

\* the DTO is added to a fresh copy of the database through add_*
CallAddSingle ==
    /\ paths.single = <<>>
    /\ paths' = [paths EXCEPT !.single = AddSingle(entry)]
    /\ UNCHANGED <<entry, client, codec, normalizer, rounding, transfers, identity, ratecache, ui>>

\* the DTO is added to a fresh copy of the database through add_*_batch
CallAddBatchOfOne ==
    /\ paths.batch = <<>>
    /\ paths' = [paths EXCEPT !.batch = AddBatch(entry)]
    /\ UNCHANGED <<entry, client, codec, normalizer, rounding, transfers, identity, ratecache, ui>>

AddPathsNext ==
    \/ CallAddSingle
    \/ CallAddBatchOfOne

AddPathsSpec == AddPathsInit /\ [][AddPathsNext]_vars

\* ================================================================== claims
Single == call.type \in {"add", "update", "delete"}
Batch == call.type \in {"batch", "add_batch"}

\* SyncUpdate rows the transaction in progress has written, and those the
\* call committed
RowsWritten == SubSeq(db.sync, Len(pre.sync) + 1, Len(db.sync))
RowsCommitted == SubSeq(committed.sync, Len(pre.sync) + 1, Len(committed.sync))

\* rows a single mutation owes before it may commit
RowsDue ==
    IF ~call.sync THEN 0
    ELSE IF call.type = "update" THEN Cardinality(CollectChangedFields(call.np))
    ELSE 1

\* C1: a single mutation reaches commit only with all of its SyncUpdate rows
\* written; when it raises, the committed state is the one it started from
\* (no record change, no SyncUpdate row); a failure after begin is always
\* followed by a call of rollback, and once rollback has completed the
\* connection sees the starting state again, no transaction is open and the
\* caller receives the error of the failed step; the call returns only if no
\* step failed, with its changes committed.
C1_SingleMutationAtomic ==
    Single =>
        /\ pc = "commit" => Len(RowsWritten) = RowsDue
        /\ pc = "rollback" => committed = pre /\ exc # NoErr
        /\ outcome = "raised" => committed = pre /\ error # NoErr
        /\ (pc = "done" /\ outcome = "raised" /\ ~rollbackTried)
              => ~txOpen /\ db = pre
        /\ (pc = "done" /\ rollbackTried /\ error # RollbackError)
              => error = exc /\ db = pre /\ ~txOpen
        /\ outcome = "returned"
              => exc = NoErr /\ committed = db /\ Len(RowsCommitted) = RowsDue

\* C1 witness: the record was stored, the sync payload could not be built
\* (no primary device), the mutation was rolled back and raised that error
C1_Witness ==
    /\ Single /\ call.kind = "expense" /\ call.type = "add"
    /\ pc = "done" /\ outcome = "raised" /\ rollbackTried
    /\ error = PrimaryDeviceError
    /\ committed = pre /\ db = pre

\* the item errors of a fail-fast batch: what the loop body can raise
ItemErrors == {NotFoundError, DuplicateError, ValueError, StorageError}

\* C2: in a batch with continue_on_error = false nothing is ever recorded as
\* failed; an operation that fails is the last one attempted (every earlier
\* one succeeded), the batch leaves the loop for rollback with that
\* operation's exception, and once it has raised, the committed state is
\* the starting one: none of the operations and no SyncUpdate row.
C2_FailFastBatch ==
    (Batch /\ ~call.coe) =>
        /\ failed = <<>>
        /\ Len(successful) \in {Len(ops), Len(ops) - 1}
        /\ Len(successful) < Len(ops)
              => /\ pc \in {"rollback", "done"}
                 /\ exc \in ItemErrors
                 /\ committed = pre
                 /\ pc = "done" => outcome = "raised" /\ rollbackTried
        /\ outcome = "raised" => committed = pre /\ error # NoErr
        /\ (pc = "done" /\ rollbackTried /\ error # RollbackError)
              => error = exc /\ db = pre /\ ~txOpen

\* C2 witness: the first operation inserted a record, the second failed, the
\* batch raised the second one's error and the record is not committed
C2_Witness ==
    /\ Batch /\ ~call.coe /\ call.original_sync_setting
    /\ pc = "done" /\ outcome = "raised"
    /\ Len(successful) = 1 /\ Len(ops) = 2
    /\ ops[1].operation = "add"
    /\ error \in ItemErrors
    /\ successful[1] \notin committed.recs
    /\ db = pre /\ committed = pre

\* a record the batch handed back answers the operation that made it
Answers(rec, op) ==
    /\ rec.kind = op.resource
    /\ op.operation # "add" => rec.key = op.key

\* the operations at the positions S of ops, in input order
OpsAt(S) == SelectSeq([i \in 1..Len(ops) |-> [i |-> i, op |-> ops[i]]],
                      LAMBDA x : x.i \in S)

\* C3: in a batch with continue_on_error = true the attempted operations
\* split, in input order, into those whose records make the successful list
\* and those that make the failed list, each with its error; the loop is
\* never left before every operation was attempted, so the batch raises only
\* from begin, the consolidated sync emission or commit; when it returns,
\* every operation was attempted and the transaction is committed (the
\* records of an add batch are all in the committed state).
C3_ContinueOnErrorBatch ==
    (Batch /\ call.coe) =>
        /\ \E S \in SUBSET (1..Len(ops)) :
              LET bad == OpsAt(S)
                  good == OpsAt((1..Len(ops)) \ S)
              IN /\ Len(failed) = Len(bad)
                 /\ \A i \in 1..Len(bad) :
                       failed[i].op = bad[i].op /\ failed[i].err \in ItemErrors
                 /\ Len(successful) = Len(good)
                 /\ \A i \in 1..Len(good) : Answers(successful[i], good[i].op)
        /\ pc \in {"rollback", "commit"} => Len(ops) = call.n
        /\ (pc = "done" /\ exc # BeginError) => Len(ops) = call.n
        /\ outcome = "raised"
              => exc \in {BeginError, CommitError, TypeError,
                          PrimaryDeviceError, EntityError, StorageError}
        /\ outcome = "returned"
              => /\ committed = db
                 /\ Len(ops) = call.n
                 /\ call.type = "add_batch"
                       => \A i \in 1..Len(successful) :
                             successful[i] \in committed.recs

\* C3 witness: of two items the first failed and the second was inserted;
\* the batch returned the record and the failure, and the record is committed
C3_Witness ==
    /\ call.type = "add_batch" /\ call.coe
    /\ pc = "done" /\ outcome = "returned"
    /\ Len(ops) = 2 /\ Len(successful) = 1 /\ Len(failed) = 1
    /\ failed[1].op = ops[1]
    /\ successful[1] \in committed.recs
    /\ successful[1] \notin pre.recs

FieldsGiven == CollectChangedFields(call.p)

\* C5: an update call that changes k fields of a record, with sync enabled,
\* commits exactly k SyncUpdate rows, each carrying the final record.
C5_OneRowPerChangedField ==
    (call.type = "update" /\ call.sync /\ outcome = "returned")
        => /\ Len(RowsCommitted) = Cardinality(FieldsGiven)
           /\ \A i \in 1..Len(RowsCommitted) : RowsCommitted[i].rec = result

\* C5 witness: the caller changed one field (amount) and two rows were
\* committed
C5_Witness ==
    /\ call.type = "update" /\ call.sync /\ outcome = "returned"
    /\ FieldsGiven = {"amount"}
    /\ Len(RowsCommitted) = 2

\* C8: in a batch with continue_on_error = true, a not-found error of entity
\* or device resolution met while the sync payload of one item's record is
\* built is recorded in the failed list and the batch still returns, the
\* other items committed.
C8_SyncNotFoundCapturedPerItem ==
    (Batch /\ call.coe /\ pc = "done" /\ exc \in {EntityError, PrimaryDeviceError})
        => /\ outcome = "returned"
           /\ \E i \in 1..Len(failed) : failed[i].err = exc
           /\ committed = db

\* C8 state: two records were stored by a continue_on_error batch, the
\* payload of one met an unresolvable entity, and the whole batch raised
C8_Witness ==
    /\ Batch /\ call.coe /\ pc = "done"
    /\ Len(successful) = 2 /\ failed = <<>>
    /\ exc = EntityError
    /\ outcome = "raised" /\ committed = pre

\* C9: with sync enabled the sync emitter accepts the record of every add:
\* no add fails with the emitter's TypeError, and an add that returned has
\* committed its record with one SyncUpdate row of operation Add<Kind>
\* listing the record's key.
C9_EveryKindEmitsSync ==
    (call.type = "add" /\ call.sync /\ pc = "done")
        => /\ exc # TypeError
           /\ outcome = "returned"
                 => /\ result \in committed.recs
                    /\ Len(RowsCommitted) = 1
                    /\ RowsCommitted[1].op = OpName("Add", call.kind)
                    /\ RowsCommitted[1].keys = {result.key}

\* C9 state: add_transfer with sync enabled raised the emitter's TypeError
\* and nothing was committed
C9_Witness ==
    /\ call.type = "add" /\ call.kind = "transfer" /\ call.sync
    /\ pc = "done" /\ outcome = "raised"
    /\ error = TypeError
    /\ committed = pre

\* C10: when begin, a step of the action or commit failed, rollback was
\* called before the call raised, and the caller receives that failure also
\* when rollback itself raised.
C10_RollbackAlwaysAndNoMasking ==
    (pc = "done" /\ outcome = "raised")
        => /\ exc \in {BeginError, CommitError, StorageError} => rollbackTried
           /\ rollbackTried => error = exc

\* C10 state: commit failed, rollback raised too, and the caller received
\* the rollback's error
C10_Witness ==
    /\ pc = "done" /\ outcome = "raised" /\ rollbackTried
    /\ exc = CommitError
    /\ error = RollbackError

\* C6: whatever was encoded decodes without error to the payload encoded.
C6_RoundTrip ==
    decoded.err # "none" => decoded.err = NoErr /\ decoded.value = payload

\* C6 state: the payload {"U":4}, whose Adler-32 ends in a zero byte, was
\* encoded and its decoding raised zlib's truncated-stream error
C6_Witness ==
    /\ payload = <<<<"U", 4>>>>
    /\ decoded.err = ZlibTruncated

InTransaction == pc \in {"action", "loop", "commit", "rollback"}

\* C11 as stated: a call is Pending with no transaction open, then
\* InTransaction, and when it is over the transaction is closed, committed
\* if the call returned and not committed if it raised.
C11_TransactionStateMachine ==
    /\ pc = "idle" => ~txOpen
    /\ InTransaction => txOpen
    /\ pc = "done"
          => /\ ~txOpen
             /\ outcome = "returned" => committed = db
             /\ outcome = "raised" => committed = pre

\* C11 amended: as above, except that the transaction is still open after
\* the call when (and only when) rollback was called and raised; every
\* step that ends a call inside a transaction is a commit, after which the
\* call returns, or a call of rollback, after which it raises; a transaction
\* is begun only by a pending call with none open.
C11_EndsInCommitOrRollbackCall ==
    /\ [](/\ pc = "idle" => ~txOpen
          /\ InTransaction => txOpen
          /\ pc = "done"
                => /\ txOpen => rollbackTried /\ error = RollbackError
                   /\ outcome = "returned" => committed = db /\ ~txOpen
                   /\ outcome = "raised" => committed = pre)
    /\ [][/\ (InTransaction /\ pc' = "done")
                => \/ outcome' = "returned" /\ committed' = db /\ ~txOpen'
                   \/ outcome' = "raised" /\ rollbackTried' /\ ~rollbackTried
          /\ (~txOpen /\ txOpen') => pc = "idle" /\ pc' \in {"action", "loop"}
         ]_vars

\* C11 witness: commit failed, rollback was called and completed, the call
\* raised the commit error with the transaction closed and nothing committed
C11_Witness ==
    /\ pc = "done" /\ outcome = "raised" /\ rollbackTried
    /\ exc = CommitError /\ error = CommitError
    /\ ~txOpen /\ committed = pre /\ db = pre

\* the inputs carry both amounts, or neither
BothGiven == forex.amount # NoneN /\ forex.currency_amount # NoneN
NeitherGiven == forex.amount = NoneN /\ forex.currency_amount = NoneN

\* a normalizer raised and so returned no triple
Rejected(r, e) ==
    /\ r.err = e
    /\ r.amount = NoneN /\ r.currency = NoneS /\ r.currency_amount = NoneN

\* C12: _normalize_forex_inputs rejects with ValueError both amounts given
\* with an exchange rate, both given without a rate and unequal, and neither
\* given without allow_empty; it does not reject by these rules equal
\* amounts with a currency, or empty inputs with allow_empty; whenever it
\* raises it returns nothing.  _resolve_batch_forex_add and the CLI's
\* resolve_forex_inputs reject both amounts together and (the CLI: without
\* allow_empty) neither.
C12_ContradictoryInputRejected ==
    /\ normalized.client # NotRun
          => LET r == normalized.client
             IN /\ (BothGiven /\ forex.exchange_rate # NoneN)
                      => Rejected(r, ValueError)
                /\ (BothGiven /\ forex.exchange_rate = NoneN
                    /\ forex.amount # forex.currency_amount)
                      => Rejected(r, ValueError)
                /\ (NeitherGiven /\ ~forex.allow_empty)
                      => Rejected(r, ValueError)
                /\ (BothGiven /\ forex.exchange_rate = NoneN
                    /\ forex.amount = forex.currency_amount
                    /\ forex.currency # NoneS) => r.err = NoErr
                /\ (NeitherGiven /\ forex.allow_empty /\ forex.currency = NoneS
                    /\ forex.exchange_rate = NoneN) => r.err = NoErr
                /\ r.err # NoErr => Rejected(r, ValueError)
    /\ (normalized.batch # NotRun /\ (BothGiven \/ NeitherGiven))
          => Rejected(normalized.batch, ValueError)
    /\ (normalized.cli # NotRun
        /\ (BothGiven \/ (NeitherGiven /\ ~forex.allow_empty)))
          => Rejected(normalized.cli, UsageError)

\* C12 witness: equal amounts were passed together with an exchange rate
\* and _normalize_forex_inputs raised
C12_Witness ==
    /\ BothGiven /\ forex.amount = forex.currency_amount
    /\ forex.exchange_rate # NoneN /\ forex.currency # NoneS
    /\ Rejected(normalized.client, ValueError)

\* C13: normalizing again the triple a successful normalization returned,
\* without an exchange rate, succeeds and returns the same triple, whatever
\* the rate provider answers.
C13_NormalizerIdempotent ==
    normalized.again # NotRun => normalized.again = normalized.client

\* C13 state: an amount alone was normalized to (amount, no currency,
\* amount), and normalizing that triple raised ValueError
C13_Witness ==
    /\ forex.amount # NoneN /\ forex.currency = NoneS
    /\ forex.currency_amount = NoneN
    /\ normalized.client.err = NoErr
    /\ normalized.client.currency_amount = forex.amount
    /\ Rejected(normalized.again, ValueError)

\* C14: an update (single or batch item) given an amount and no foreign
\* amount hands the storage layer no foreign amount.
C14_UpdateLeavesForeignAmountUnset ==
    /\ (call.type = "update" /\ call.p.amount # NoneN
        /\ call.p.currency_amount = NoneN)
          => call.np.currency_amount = NoneN
    /\ \A i \in 1..Len(sync_actions) :
          sync_actions[i].verb = "Update"
             => "currency_amount" \notin sync_actions[i].changed

\* C14 state: update_expense(key, amount) returned, having passed the
\* amount to the storage layer as foreign amount too
C14_Witness ==
    /\ call.type = "update" /\ call.kind = "expense"
    /\ call.p.amount # NoneN /\ call.p.currency_amount = NoneN
    /\ call.p.currency = NoneS /\ call.p.notes = NoneS
    /\ call.np.currency_amount = call.p.amount
    /\ outcome = "returned"
    /\ result.currency_amount = call.p.amount

\* the normalizer rejects the monetary parameters of an update (whatever
\* the rate provider would answer: no check depends on the rate)
NormalizerRejects(q) ==
    NormalizeForexInputs(q.amount, q.currency, q.currency_amount,
                         q.exchange_rate, q.notes # NoneS, BatchRate).err # NoErr

\* validation rejects the monetary parameters of a batch operation
ItemRejected(op) ==
    CASE op.operation = "add" ->
            ResolveBatchForexAdd(op.p.amount, op.p.currency, op.p.currency_amount,
                                 op.p.exchange_rate).err # NoErr
      [] op.operation = "update" -> NormalizerRejects(op.p)
      [] OTHER -> FALSE

\* C15: an update whose monetary input the normalizer rejects raises
\* ValueError with no transaction begun (none open, no rollback called) and
\* records, AccountTrans and SyncUpdate as they were; the step of a batch
\* that meets an item whose monetary input is rejected leaves the database
\* as it was and records the ValueError (or leaves the loop with it).
C15_ValidationBeforeStorage ==
    /\ []((call.type = "update" /\ NormalizerRejects(call.p))
             => /\ pc = "done" /\ outcome = "raised"
                /\ error = ValueError /\ exc = ValueError
                /\ ~txOpen /\ ~rollbackTried
                /\ db = pre /\ committed = pre)
    /\ [][(Len(ops') = Len(ops) + 1 /\ ItemRejected(ops'[Len(ops')]))
             => /\ db' = db
                /\ IF call.coe
                   THEN failed' = Append(failed, [op |-> ops'[Len(ops')],
                                                  err |-> ValueError])
                   ELSE exc' = ValueError /\ pc' = "rollback"]_vars

\* C15 witness: update_expense with an amount and a different foreign amount
\* on a database holding the expense raised ValueError and changed nothing
C15_Witness ==
    /\ call.type = "update" /\ call.kind = "expense"
    /\ call.p.amount # NoneN /\ call.p.currency_amount # NoneN
    /\ pc = "done" /\ error = ValueError
    /\ pre = SeedDb /\ db = SeedDb /\ committed = SeedDb
    /\ ~txOpen

\* the decimal places the rounding rule gives a currency whose lookup
\* answered `rate`: 0 above the threshold, 2 otherwise
PlacesDue(rate) ==
    IF lookup.manager /\ rate # LookupFailed /\ rate > HIGH_VALUE_RATE_THRESHOLD
    THEN 0 ELSE 2

\* C16: the decimal places resolved for a currency are 0 when its rate
\* exceeds 100 and 2 otherwise (a rate of at most 100, no rate provider, a
\* failed lookup), and always 0 or 2.
C16_DecimalPlacesByThreshold ==
    places.amount # NoneN
       => /\ places.amount = PlacesDue(lookup.base_rate)
          /\ places.currency_amount =
                PlacesDue(IF lookup.currency # NoneS THEN lookup.currency_rate
                          ELSE lookup.base_rate)
          /\ places.amount \in {0, 2} /\ places.currency_amount \in {0, 2}

\* C16 state: the rate of the currency is exactly 100 and 0 decimal places
\* were resolved for its amounts
C16_Witness ==
    /\ lookup.manager /\ lookup.currency # NoneS
    /\ lookup.currency_rate = HIGH_VALUE_RATE_THRESHOLD
    /\ lookup.base_rate = 1
    /\ places.amount = 2 /\ places.currency_amount = 0

\* ---------------------------------------------------------------------- C17
\* the currency a caller named for the transfer
NamedCurrency == transfer.currency # NoneS

\* C17: add_transfer accepts a named currency that is the currency of the
\* from account or of the to account and stores the row with the from
\* account's currency; it rejects with ValueError, storing nothing, a named
\* currency that is the currency of neither account.
C17_TransferCurrencyEitherAccount ==
    (added # NotAdded /\ NamedCurrency) =>
        IF transfer.currency \in {transfer.from_currency, transfer.to_currency}
        THEN /\ added.err = NoErr
             /\ added.rows # {}
             /\ \A r \in added.rows : r.currency = transfer.from_currency
        ELSE /\ added.err = ValueError
             /\ added.rows = {}

\* a transfer naming the currency of the to account only was rejected
C17_Witness ==
    /\ added.err = ValueError
    /\ transfer.currency = transfer.to_currency
    /\ transfer.currency # transfer.from_currency

\* ---------------------------------------------------------------------- C18
\* a stored record of `kind` matches an add of `amount` (without notes) on
\* every compared column
Duplicates(d, kind, amount) ==
    \E r \in d.recs : r.kind = kind /\ r.amount = amount /\ r.notes = ""

\* the single add in progress names existing entities and duplicates a
\* record stored before the call
DuplicateAdd ==
    /\ call.type = "add"
    /\ call.dto.valid
    /\ Duplicates(pre, call.kind, call.dto.amount)

\* this step of a batch loop handles an add that duplicates a record the
\* connection sees, stored before the batch or inserted earlier in it
DuplicateItem ==
    /\ pc = "loop"
    /\ Len(ops') = Len(ops) + 1
    /\ LET op == ops'[Len(ops')]
       IN /\ op.operation = "add"
          /\ op.valid
          /\ op.p.amount # NoneN
          /\ Duplicates(db, op.resource, op.p.amount)

\* C18: an add that duplicates a stored record raises DuplicateError and
\* the committed state stays as it was (no second record, no AccountTrans
\* row, no SyncUpdate row); the caller receives DuplicateError once rollback
\* has completed.  In a batch, an item duplicating a record that is stored
\* or was inserted earlier in the same batch fails with DuplicateError
\* without writing anything and without being queued for sync.
C18_DuplicateAddRejected ==
    /\ [](DuplicateAdd =>
            /\ committed = pre
            /\ pc # "commit"
            /\ outcome # "returned"
            /\ pc = "rollback" => exc = DuplicateError /\ db = pre
            /\ (pc = "done" /\ rollbackTried /\ error # RollbackError)
                  => error = DuplicateError)
    /\ [][DuplicateItem =>
            /\ db' = db
            /\ successful' = successful
            /\ sync_actions' = sync_actions
            /\ IF call.coe
               THEN failed' = Append(failed, [op |-> ops'[Len(ops')],
                                              err |-> DuplicateError])
               ELSE pc' = "rollback" /\ exc' = DuplicateError]_vars

\* C18 witness: a continue-on-error batch returned; one of its items failed
\* with DuplicateError as the duplicate of a record that an earlier item of
\* the batch inserted, and the committed state holds that record once
C18_Witness ==
    /\ Batch /\ call.coe
    /\ pc = "done" /\ outcome = "returned"
    /\ \E i \in 1..Len(failed) :
          LET op == failed[i].op
          IN /\ failed[i].err = DuplicateError
             /\ ~Duplicates(pre, op.resource, op.p.amount)
             /\ Cardinality({r \in committed.recs :
                               /\ r.kind = op.resource
                               /\ r.amount = op.p.amount
                               /\ r.notes = ""}) = 1

\* ---------------------------------------------------------------------- C19
\* the AccountTrans rows of type t that reference the record r
TransRows(d, r, t) == {x \in d.trans : x.type = t /\ x.key = r.key}

\* every record of d owns exactly one AccountTrans row of each of its types
\* and every AccountTrans row references a record of d
AccountTransConsistent(d) ==
    /\ \A r \in d.recs : \A t \in TransTypes(r.kind) :
          Cardinality(TransRows(d, r, t)) = 1
    /\ \A x \in d.trans : \E r \in d.recs :
          x.key = r.key /\ x.type \in TransTypes(r.kind)

\* C19: in the committed state every stored expense and income has exactly
\* one AccountTrans row of its type, every stored transfer exactly one
\* transfer_out and one transfer_in row, and no AccountTrans row references
\* a record that is not stored.
C19_AccountTransConsistent == AccountTransConsistent(committed)

\* C19 state: a continue-on-error batch returned; the insert of one item
\* failed after its record row was written, the item is reported as failed,
\* and the committed state holds the record without an AccountTrans row
C19_Witness ==
    /\ Batch /\ call.coe
    /\ pc = "done" /\ outcome = "returned"
    /\ \E i \in 1..Len(failed) :
          failed[i].err = StorageError /\ failed[i].op.operation = "add"
    /\ \E r \in committed.recs : \A t \in TransTypes(r.kind) :
          TransRows(committed, r, t) = {}

\* ---------------------------------------------------------------------- C20
\* C20: every record an update returned or a later get observed has the key
\* and the time_stamp of the record the insert returned.
C20_KeyAndTimeStampImmutable ==
    \A i \in 1..Len(seen) :
        /\ seen[i].key = seen[1].key
        /\ seen[i].time_stamp = seen[1].time_stamp

\* C20 state: a transfer was inserted, its insert returned a time_stamp, and
\* a later get of the same key answered without one
C20_Witness ==
    /\ Len(seen) >= 2
    /\ seen[1].kind = "transfer"
    /\ seen[1].time_stamp # NoneN
    /\ \E i \in 2..Len(seen) :
          seen[i].key = seen[1].key /\ seen[i].time_stamp = NoneN

\* ---------------------------------------------------------------------- C21
\* C21: a transaction input that DTO validation accepted has its currency
\* set if and only if its currency_amount is set.
C21_ForeignFieldsTogether ==
    normalized.dto.err = NoErr =>
        (normalized.dto.currency # NoneS <=> normalized.dto.currency_amount # NoneN)

\* C21 state: a DTO with a currency_amount and no currency was accepted
C21_Witness ==
    /\ normalized.dto.err = NoErr
    /\ forex.currency = NoneS
    /\ forex.currency_amount # NoneN
    /\ normalized.dto.currency_amount = forex.currency_amount

\* ---------------------------------------------------------------------- C22
\* the single delete in progress names a key that was not stored
DeleteOfMissing ==
    /\ call.type = "delete"
    /\ GetRecord(pre, call.kind, call.key).err = NotFoundError

\* C22: a delete of a key that does not exist raises NotFoundError from its
\* get, goes to rollback and never to commit, and leaves records,
\* AccountTrans and SyncUpdate as they were; the caller receives
\* NotFoundError once rollback has completed.  After a delete that returned,
\* a get of the key raises NotFoundError, none of its AccountTrans rows is
\* left, and with sync enabled exactly one Delete row was committed, built
\* from the record as it was read before the deletion (none without sync).
C22_DeleteNotFoundAndDeleteSync ==
    /\ DeleteOfMissing =>
          /\ committed = pre
          /\ pc # "commit"
          /\ outcome # "returned"
          /\ pc = "rollback" => exc = NotFoundError /\ db = pre
          /\ (pc = "done" /\ rollbackTried /\ error # RollbackError)
                => error = NotFoundError /\ db = pre
    /\ (call.type = "delete" /\ outcome = "returned") =>
          /\ GetRecord(pre, call.kind, call.key).err = NoErr
          /\ GetRecord(committed, call.kind, call.key).err = NotFoundError
          /\ \A t \in committed.trans :
                ~(t.type \in TransTypes(call.kind) /\ t.key = call.key)
          /\ RowsCommitted =
                IF call.sync
                THEN <<[op |-> OpName("Delete", call.kind), kind |-> call.kind,
                        keys |-> {call.key},
                        rec |-> GetRecord(pre, call.kind, call.key).rec]>>
                ELSE <<>>

\* C22 witness: with sync enabled the delete of a stored expense returned,
\* its DeleteExpense row is committed and the expense is gone
C22_Witness ==
    /\ call.type = "delete" /\ call.kind = "expense" /\ call.sync
    /\ pc = "done" /\ outcome = "returned"
    /\ Len(RowsCommitted) = 1
    /\ GetRecord(committed, "expense", call.key).err = NotFoundError

\* ---------------------------------------------------------------------- C23
\* the cache the last get_rate found was stamped within the TTL of the call
WithinTtl ==
    /\ asked.before.timestamp # NoneN
    /\ asked.at - asked.before.timestamp <= DEFAULT_CACHE_TTL_HOURS

\* what the caller of the last get_rate received
Answered == [rate |-> asked.rate, err |-> asked.err]

\* C23: a get_rate that finds the cached rates stamped within the TTL
\* answers from them without calling the rate API and leaves cache and file
\* alone; a get_rate for two different currencies that finds the cache
\* missing or older than the TTL calls the API, and when the API answers
\* with rates, the cache holds those rates stamped with the time of the
\* call and the cache file holds the same.
C23_CacheWithinTtlElseFetch ==
    asked # NotAsked =>
        /\ WithinTtl =>
              /\ ~asked.fetched /\ ~asked.saved
              /\ cache = asked.before /\ cache_file = asked.file_before
              /\ asked.from # asked.to =>
                    Answered = RateFrom(asked.before.rates, asked.from, asked.to)
        /\ (~WithinTtl /\ asked.from # asked.to) =>
              /\ asked.fetched
              /\ asked.fetch \in RateTables =>
                    /\ asked.saved
                    /\ cache = BuildCache(asked.fetch, asked.at)
                    /\ cache_file = SavedFile(cache)
                    /\ Answered = RateFrom(asked.fetch, asked.from, asked.to)

\* C23 witness: a cache older than the TTL was replaced by the different
\* rates a fetch answered, stamped with the time of the call, and written
C23_Witness ==
    /\ asked.from = REF_CURRENCY /\ asked.to = "SGD"
    /\ ~WithinTtl /\ asked.before.timestamp # NoneN
    /\ asked.fetched /\ asked.saved
    /\ asked.fetch # asked.before.rates
    /\ cache.rates = asked.fetch /\ cache.timestamp = asked.at
    /\ cache_file = SavedFile(cache)

\* ---------------------------------------------------------------------- C24
\* the last get_rate called the API and got no rates from it
FetchFailed == asked.fetched /\ asked.fetch \notin RateTables

\* C24: when the API fetch raises (or answers without rates), get_rate
\* answers from the stale cached rates if there are any and 1.0 otherwise;
\* cache and cache file stay as they were, the file is neither created nor
\* rewritten, and the caller receives no exception of the fetch.
C24_StaleCacheOrFallback ==
    FetchFailed =>
        /\ asked.err # FetchError
        /\ Answered = IF asked.before.rates # NoRates
                      THEN RateFrom(asked.before.rates, asked.from, asked.to)
                      ELSE [rate |-> <<1, 1>>, err |-> NoErr]
        /\ ~asked.saved
        /\ cache_file = asked.file_before
        /\ cache = asked.before

\* C24 witness: the fetch raised with a stale cache and the stale rate was
\* answered
C24_Witness ==
    /\ FetchFailed /\ asked.fetch = FetchRaises
    /\ asked.from = REF_CURRENCY /\ asked.to = "SGD"
    /\ asked.before.rates # NoRates /\ ~WithinTtl
    /\ asked.rate = <<asked.before.rates, 1>>
    /\ cache_file.state = "written"


\* what the log holds of the UI controller's reopen
Reopens == {"open ok", "open failed"}

\* the log names the call e
Logged(e) == \E i \in 1..Len(ui.log) : ui.log[i] = e

\* the UI is bracketed around the transaction in the log: a reported close
\* comes first, the reopen comes last, and the call is over once it is made
Bracketed ==
    /\ Logged("begin") => ui.log[1] = "close ok"
    /\ \A i \in 1..Len(ui.log) : ui.log[i] \in Reopens => (i = Len(ui.log) /\ ui.pc = "done")
    /\ (ui.pc = "done" /\ Logged("begin")) => ui.log[Len(ui.log)] \in Reopens

\* a failed close: nothing of the transaction happened
CloseFailedCleanly ==
    Logged("close failed") =>
        /\ ui.log = <<"close failed">>
        /\ ui.stored = 0
        /\ ui.written = 0
        /\ ui.error = CloseError
        /\ ui.result = NoneN

\* C25: with UI control enabled the UI is closed before the transaction
\* begins and reopened after it has ended, after a commit and after a
\* rollback alike; when closing fails the transaction is never begun and
\* storage is unchanged; the reopen, failed or not, leaves the result, the
\* error raised and the storage as the transaction left them.
C25_UiBracketsTransaction ==
    /\ [](ui.enable_ui_control => (Bracketed /\ CloseFailedCleanly))
    /\ [][ui.pc = "reopen" => (ui'.result = ui.result /\ ui'.error = ui.error /\ ui'.stored = ui.stored /\ ui'.written = ui.written)]_vars

\* C25 witness: a rolled back transaction whose reopen failed
C25_Witness ==
    /\ ui.enable_ui_control
    /\ ui.pc = "done"
    /\ ui.log = <<"close ok", "begin", "rollback", "open failed">>
    /\ ui.error = StorageError
    /\ ui.stored = 0


\* C26: during the per-item loop of a batch call the client's enable_sync
\* flag is false; once the action of the batch is over (it returned, it was
\* left on the first failing item, or the consolidated sync emission failed)
\* and when the call has returned or raised, the flag is what it was when the
\* client was called.
C26_BatchRestoresEnableSync ==
    Batch =>
        /\ pc = "loop" => ~enable_sync
        /\ pc \in {"commit", "rollback", "done"} => enable_sync = call.sync

\* C26 witness: a fail-fast batch of a client with sync enabled raised after
\* its second item failed
C26_Witness ==
    /\ Batch
    /\ pc = "done"
    /\ outcome = "raised"
    /\ ~call.coe
    /\ Len(ops) = 2
    /\ call.sync
    /\ enable_sync


\* ---------------------------------------------------------------------- C27
\* the record (kind, key) is one a successful operation of the batch returned
Touched(kind, key) ==
    \E i \in 1..Len(successful) : successful[i].kind = kind /\ successful[i].key = key

\* the rows by which the sets a and b differ
Changed(a, b) == (a \ b) \cup (b \ a)

\* C27: in a committed continue-on-error batch the committed state differs
\* from the state before the call only in rows of records that a successful
\* operation returned: no record row and no AccountTrans row written or
\* deleted by an operation of the failed list is committed.
C27_FailedContributesNothing ==
    (Batch /\ call.coe /\ pc = "done" /\ outcome = "returned") =>
        /\ \A r \in Changed(committed.recs, pre.recs) : Touched(r.kind, r.key)
        /\ \A x \in Changed(committed.trans, pre.trans) :
              \E k \in Kinds : x.type \in TransTypes(k) /\ Touched(k, x.key)

\* C27 state: a continue-on-error batch returned with nothing in its
\* successful list; the delete of a stored record failed after its
\* AccountTrans rows were deleted, and the committed state holds the record
\* without them
C27_Witness ==
    /\ Batch /\ call.coe
    /\ pc = "done" /\ outcome = "returned"
    /\ successful = <<>>
    /\ \E i \in 1..Len(failed) :
          failed[i].err = StorageError /\ failed[i].op.operation = "delete"
    /\ committed.recs = pre.recs
    /\ committed.trans # pre.trans


\* ---------------------------------------------------------------------- C28
\* rows the caller of a batch operation expects of it when it succeeds: one
\* for an add or a delete, one per field an update was asked to change
RowsAsked(op) ==
    IF op.operation = "update" THEN Cardinality(CollectChangedFields(op.p)) ELSE 1

RECURSIVE SumRowsAsked(_)
SumRowsAsked(os) == IF os = <<>> THEN 0 ELSE RowsAsked(Head(os)) + SumRowsAsked(Tail(os))

\* the operations of the failed list
FailedOps == [i \in 1..Len(failed) |-> failed[i].op]

\* the row a successful operation's entry of sync_actions stands for
IsRowOf(x, a) == x.op = OpName(a.verb, a.rec.kind) /\ x.rec = a.rec /\ x.keys = {a.rec.key}

\* rows is made of one block of rows per action, in the order of the
\* actions: one row for an add or a delete, one or more for an update
RECURSIVE InInputOrder(_, _)
InInputOrder(rows, actions) ==
    IF actions = <<>> THEN rows = <<>>
    ELSE /\ rows # <<>>
         /\ IsRowOf(Head(rows), Head(actions))
         /\ \/ InInputOrder(Tail(rows), Tail(actions))
            \/ Head(actions).verb = "Update" /\ InInputOrder(Tail(rows), actions)

\* C28: in a committed mixed batch with sync enabled the SyncUpdate rows
\* follow the input order of the successful operations, one row for each
\* successful add or delete and one per changed field for each successful
\* update, so that their number is the number of successful adds and deletes
\* plus the changed fields of the successful updates.
C28_BatchSyncRowsInOrder ==
    (call.type = "batch" /\ call.sync /\ pc = "done" /\ outcome = "returned")
        => /\ InInputOrder(RowsCommitted, sync_actions)
           /\ Len(RowsCommitted) = SumRowsAsked(ops) - SumRowsAsked(FailedOps)

\* C28 state: a batch of one update that changes the amount of a stored
\* expense returned, and two SyncUpdate rows were committed
C28_Witness ==
    /\ call.type = "batch" /\ call.sync
    /\ pc = "done" /\ outcome = "returned"
    /\ Len(ops) = 1 /\ failed = <<>>
    /\ ops[1].operation = "update"
    /\ CollectChangedFields(ops[1].p) = {"amount"}
    /\ Len(RowsCommitted) = 2


\* ---------------------------------------------------------------------- C29
\* the AccountTrans rows of the transfer r carry its two amounts
TransferAmountsAgree(d, r) ==
    /\ \A x \in TransRows(d, r, "transfer_out") : x.amount = r.currency_amount
    /\ \A x \in TransRows(d, r, "transfer_in") : x.amount = r.amount

\* C29: for every stored transfer the amount of its transfer_out row is the
\* transfer's currency_amount and the amount of its transfer_in row is the
\* transfer's amount, after the insert and after every update.
C29_TransferRowsCarryAmounts ==
    \A r \in committed.recs : r.kind = "transfer" => TransferAmountsAgree(committed, r)

\* C29 state: an update of a stored transfer returned; the transfer keeps
\* both AccountTrans rows and its transfer_out row does not carry its
\* currency_amount
C29_Witness ==
    /\ call.type = "update" /\ call.kind = "transfer"
    /\ pc = "done" /\ outcome = "returned"
    /\ result \in committed.recs
    /\ \E x \in TransRows(committed, result, "transfer_out") :
          x.amount = result.amount /\ x.amount # result.currency_amount
    /\ \E x \in TransRows(committed, result, "transfer_in") : x.amount = result.amount


\* ---------------------------------------------------------------------- C30
\* C30: a valid DTO added through add_*_batch as a one-element list stores
\* the same record (amount, currency, currency_amount) and writes as many
\* SyncUpdate rows as the DTO added through add_*.
C30_BatchAndSingleAddAgree ==
    (paths.single # <<>> /\ paths.batch # <<>>) => paths.single = paths.batch

\* C30 state: an amount-only DTO on an account of a foreign currency whose
\* rate is not 1, added both ways: add_* stored the converted amount,
\* add_*_batch the amount as given
C30_Witness ==
    /\ entry.kind = "expense"
    /\ entry.currency = NoneS /\ entry.currency_amount = NoneN
    /\ entry.account_currency # BASE_CURRENCY
    /\ paths.single # <<>> /\ paths.batch # <<>>
    /\ paths.single[1].record.amount = entry.amount * entry.rate
    /\ paths.batch[1].record.amount = entry.amount
    /\ paths.single[1].record.amount # paths.batch[1].record.amount
    /\ paths.single[1].record.currency = paths.batch[1].record.currency
    /\ paths.single[1].sync_rows = paths.batch[1].sync_rows

====
